---------------------------- MODULE Spec2Model ----------------------------
(***************************************************************************)
(* Model of the loan amortization and target-return engine of the risk     *)
(* engine (deploy_backend/lender_cashflow_calculator.py and                *)
(* deploy_backend/fund_performance_model.py).                              *)
(*                                                                         *)
(* Arithmetic.  The program computes in binary floating point.  The model  *)
(* computes in fixed point: money is an integer number of cents, a rate,   *)
(* a percentage or a growth factor is an integer number of millionths      *)
(* (R = 10^6 stands for 1.0), and a product of a value and a rate is       *)
(* rounded to the nearest unit.  Sums and differences are exact.           *)
(*                                                                         *)
(* Evaluation.  A value that an operator reads many times (a cash flow, a  *)
(* midpoint of a bisection, a table of powers) is handed to a local        *)
(* function, F[value]: the argument of a function application is           *)
(* evaluated once, that of an operator each time it is read.               *)
(***************************************************************************)
EXTENDS Integers, Sequences, FiniteSets, TLC

(***************************************************************************)
(* Bounds of the model.                                                    *)
(***************************************************************************)
MaxMonths == 3

(***************************************************************************)
(* Fixed-point helpers.                                                    *)
(***************************************************************************)
R == 1000 * 1000

\* a * b with a, b >= 0 and b in millionths, rounded to the nearest unit:
\* floor((a*b + 10^6/2) / 10^6), computed in 10^3 limbs so that no
\* intermediate product leaves the 32-bit range.
MulPos(a, b) ==
    LET a1 == a \div 1000
        a0 == a % 1000
        b1 == b \div 1000
        b0 == b % 1000
    IN  a1 * b1
        + ((a1 * b0 + a0 * b1) + ((a0 * b0 + 500000) \div 1000)) \div 1000

\* a * b for b >= 0 in millionths; like the floating-point product it is
\* symmetric in the sign of a.
MulR(a, b) == IF a < 0 THEN -MulPos(-a, b) ELSE MulPos(a, b)

\* 10^12 / x (the factor 1/x of a factor x, both in millionths), by long
\* division.
InvR(x) ==
    LET q1 == (1000 * R) \div x
        r1 == (1000 * R) % x
        q2 == (r1 * 100) \div x
        r2 == (r1 * 100) % x
    IN  q1 * 1000 + q2 * 10 + (r2 * 10) \div x

\* g ** 12 for a factor g in millionths.
Pow12(g) ==
    LET g2 == MulR(g, g)
        g4 == MulR(g2, g2)
        g8 == MulR(g4, g4)
    IN  MulR(g8, g4)

\* The largest m in lo..hi with Pow12(R + m) <= R + y, by bisection
\* (Pow12(R + lo) <= R + y is given).
RECURSIVE RootSearch(_, _, _)
RootSearch(y, lo, hi) ==
    IF lo >= hi THEN lo
    ELSE LET mid == (lo + hi + 1) \div 2
         IN  IF Pow12(R + mid) <= R + y
             THEN RootSearch(y, mid, hi)
             ELSE RootSearch(y, lo, mid - 1)

MonthlyRateYearOver12(y) == y \div 12

\* (1 + y) ** (1/12) - 1 for a yearly rate y >= 0 in millionths.
MonthlyRate(y) == RootSearch(y, 0, y)

Abs(a) == IF a < 0 THEN -a ELSE a

Min(a, b) == IF a <= b THEN a ELSE b

\* s[lo] + ... + s[hi], by halves (the evaluation stays shallow).
RECURSIVE SumRange(_, _, _)
SumRange(s, lo, hi) ==
    IF lo > hi THEN 0
    ELSE IF lo = hi THEN s[lo]
    ELSE LET mid == (lo + hi) \div 2
         IN  SumRange(s, lo, mid) + SumRange(s, mid + 1, hi)

SumSeq(s) == SumRange(s, 1, Len(s))

Reverse(s) == [k \in 1..Len(s) |-> s[Len(s) + 1 - k]]

(***************************************************************************)
(* numpy_financial.irr, for a cash flow whose first entry is <= 0 and      *)
(* whose other entries are >= 0 (the only shape the two engines build).    *)
(* The net present value is then decreasing in the rate and has at most    *)
(* one root: irr returns it, and returns nan when no entry is positive or  *)
(* the first is not negative.  The model evaluates the sign of the net     *)
(* present value at a rate                                                 *)
(*   - for a rate >= 0 by discounting with x = 1/(1+rate),                 *)
(*   - for a rate < 0 by compounding with g = 1+rate (the future value     *)
(*     has the sign of the present value),                                 *)
(* so that no intermediate value grows, and finds the root by bisection.   *)
(* The model assumes the package is installed: the fallback taken on an    *)
(* ImportError is not modelled.                                            *)
(***************************************************************************)
NaN == -2000000
None == -3000000

\* The rates searched: from -100% to 400% a month.
MaxIrr == 4 * R

IrrDefined(cf) ==
    /\ Len(cf) >= 2
    /\ cf[1] < 0
    /\ \E k \in 2..Len(cf) : cf[k] > 0

\* x^1, x^2, x^4, ..., x^32 for a factor x in millionths.
Powers(x) ==
    LET x2 == MulR(x, x)
        x4 == MulR(x2, x2)
        x8 == MulR(x4, x4)
        x16 == MulR(x8, x8)
        x32 == MulR(x16, x16)
    IN  <<x, x2, x4, x8, x16, x32>>

\* The sum of cf[j] * x^(j-lo) over the 2^lvl entries from lo on (those
\* that exist), by halves: xp is Powers(x).
RECURSIVE WeightedSum(_, _, _, _)
WeightedSum(cf, lo, lvl, xp) ==
    IF lo > Len(cf) THEN 0
    ELSE IF lvl = 0 THEN cf[lo]
    ELSE WeightedSum(cf, lo, lvl - 1, xp)
         + MulR(WeightedSum(cf, lo + 2 ^ (lvl - 1), lvl - 1, xp), xp[lvl])

\* The sum of cf[j] * x^(j-1), for at most 64 entries: the present value of
\* cf at the discount factor x.
Discounted(cf, x) ==
    LET Sum[xp \in Seq(Nat)] == WeightedSum(cf, 1, 6, xp)
    IN  Sum[Powers(x)]

\* The sum of cf[j] * g^(Len(cf)-j): the future value of cf at the growth
\* factor g.
Compounded(cf, g) == Discounted(Reverse(cf), g)

\* A value with the sign of the net present value of cf at a monthly rate.
NpvAt(cf, rate) ==
    IF rate >= 0
    THEN Discounted(cf, InvR(R + rate))
    ELSE Compounded(cf, R + rate)

\* The largest rate in lo..hi at which the net present value is >= 0 (it
\* is at lo).
RECURSIVE RateSearch(_, _, _)
RateSearch(cf, lo, hi) ==
    IF lo >= hi THEN lo
    ELSE LET Half[mid \in Int] ==
                 IF NpvAt(cf, mid) >= 0
                 THEN RateSearch(cf, mid, hi)
                 ELSE RateSearch(cf, lo, mid - 1)
         IN  Half[(lo + hi + 1) \div 2]

\* The monthly rate, in millionths, or NaN.
Irr(cf) ==
    LET Root[flow \in Seq(Int)] ==
            IF ~IrrDefined(flow) THEN NaN
            ELSE IF SumSeq(flow) >= 0
                 THEN RateSearch(flow, 0, MaxIrr)
                 ELSE RateSearch(flow, -R, -1)
    IN  Root[cf]

\* irr(cf) >= rate: the root lies at or above the rate exactly when the
\* net present value at the rate is still >= 0 (nan compares False).
IrrAtLeast(cf, rate) ==
    LET AtLeast[flow \in Seq(Int)] ==
            IrrDefined(flow) /\ NpvAt(flow, rate) >= 0
    IN  AtLeast[cf]

\* (1 + monthly) ** 12 - 1
Annualize(monthly) == Pow12(R + monthly) - R

(***************************************************************************)
(* State.                                                                  *)
(***************************************************************************)
VARIABLES
    \* calculate_lender_cashflows: arguments, locals and position
    original_cashflows, loan_percentage, yearly_interest_rate,
    monthly_interest_rate, loan_amount, outstanding_principal,
    lender_cashflows, i, loan_info, pc,
    \* what each processed month did (one record per loop iteration)
    history,
    \* calculate_fund_returns_for_cohort: arguments, locals and position
    sm_value, gross_profit_series, target_irr, max_years,
    fund_loan_amount, monthly_returns, cumulative_return,
    months_to_target, months_to_max_years, return_reached,
    final_monthly_returns, final_cumulative_return, actual_irr, fpc,
    \* what irr does with a flow that has no root: "nan" or "raise"
    irr_failure,
    \* the caller: "direct", or "analyze" (analyze_fund_performance, which
    \* passes the default target_irr and max_years), and its locals
    caller, fund_results, irr_stats,
    \* build_prediction_algorithm and the two ratio samplers: the history
    \* (one entry per month, in chronological order), the mode, the
    \* algorithm built, the random draws of one run, and what
    \* run_single_prediction_ratio and predict_next_12_months return
    sm_dict, revenue_dict, conservative, algorithm_data, draws,
    simulation_data, predictions, spc, run_pc, predict_pc,
    \* the retention engine: the cohort file, what get_retention_table and
    \* get_min_ndr_12th_root return (with the terms of the NDR loop), what
    \* calculate_ndr_evolution collects, the argument, the pools and the
    \* curves of simulate_retention_curve and of
    \* simulate_1000_retention_curves, and the positions
    cohorts_data, retention_table, num_cols, ndr_terms, min_ndr_12th_root,
    ndr_evolution, backend_conservative, pool_records, simulated_curve,
    deploy_conservative, deploy_records, all_curves, rpc, curve_pc,
    deploy_pc, evolution_pc,
    \* the cash-flow projector: one row's simulation and retention curve,
    \* the gross margin, what build_revenue_table and
    \* build_gross_profit_table compute for the row, and the positions
    mc_data, retention_curve, gross_margin, revenue_columns, revenue_ltv_cac,
    gross_profit_columns, ltv_cac, row_cash_flow, row_irr, revenue_pc,
    profit_pc

loanVars == <<original_cashflows, loan_percentage, yearly_interest_rate,
              monthly_interest_rate, loan_amount, outstanding_principal,
              lender_cashflows, i, loan_info, pc, history>>

fundArgs == <<sm_value, gross_profit_series, target_irr, max_years,
              irr_failure, caller>>

fundLocals == <<fund_loan_amount, monthly_returns, cumulative_return,
                months_to_target, months_to_max_years, return_reached,
                final_monthly_returns, final_cumulative_return, actual_irr>>

fundVars == <<fundArgs, fundLocals, fpc, fund_results, irr_stats>>

samplerVars == <<sm_dict, revenue_dict, conservative, algorithm_data, draws,
                 simulation_data, predictions, spc, run_pc, predict_pc>>

retentionVars == <<cohorts_data, retention_table, num_cols, ndr_terms,
                   min_ndr_12th_root, ndr_evolution, backend_conservative,
                   pool_records, simulated_curve, deploy_conservative,
                   deploy_records, all_curves, rpc, curve_pc, deploy_pc,
                   evolution_pc>>

projectorVars == <<mc_data, retention_curve, gross_margin, revenue_columns,
                   revenue_ltv_cac, gross_profit_columns, ltv_cac,
                   row_cash_flow, row_irr, revenue_pc, profit_pc>>

vars == <<loanVars, fundVars, samplerVars, retentionVars, projectorVars>>

\* What an action of one component leaves alone.
otherThanLoan == <<fundVars, samplerVars, retentionVars, projectorVars>>
otherThanFund == <<loanVars, samplerVars, retentionVars, projectorVars>>
otherThanSampler == <<loanVars, fundVars, retentionVars, projectorVars>>
otherThanRetention == <<loanVars, fundVars, samplerVars, projectorVars>>
otherThanProjector == <<loanVars, fundVars, samplerVars, retentionVars>>

(***************************************************************************)
(* LoanAmortizer: calculate_lender_cashflows.                              *)
(***************************************************************************)
\* Inputs of the model: first entries (0 is rejected), monthly flows in
\* cents, loan percentages and yearly rates in millionths.
Investments == {-100000, 0}
Flows == {-1000, 0, 1000, 10000, 60000, 120000}
LoanPercentages == {500000, 800000, 1000000}
YearlyRates == {0, 160000, 250000}

NoInfo == [loan_amount |-> 0, total_payments_received |-> 0,
           final_outstanding_principal |-> 0, net_return |-> 0]

MonthStepUncapped(original_flow, outstanding, lp, rate) ==
    IF original_flow <= 0
    THEN [flow |-> original_flow, before |-> outstanding, interest |-> 0,
          principal |-> 0, payment |-> 0, after |-> outstanding]
    ELSE LET max_payment == MulR(original_flow, lp)
             interest_payment == MulR(outstanding, rate)
         IN  [flow |-> original_flow, before |-> outstanding,
              interest |-> interest_payment,
              principal |-> max_payment - interest_payment,
              payment |-> max_payment,
              after |-> outstanding - (max_payment - interest_payment)]

MonthStepPaysShare(original_flow, outstanding, lp, rate) ==
    IF original_flow <= 0
    THEN [flow |-> original_flow, before |-> outstanding, interest |-> 0,
          principal |-> 0, payment |-> 0, after |-> outstanding]
    ELSE LET max_payment == MulR(original_flow, lp)
             interest_payment == MulR(outstanding, rate)
         IN  [flow |-> original_flow, before |-> outstanding,
              interest |-> interest_payment,
              principal |-> Min(max_payment - interest_payment, outstanding),
              payment |-> max_payment,
              after |-> outstanding
                        - Min(max_payment - interest_payment, outstanding)]

\* One iteration of the loop over original_cashflows[1:], given the
\* month's flow and the outstanding principal before it.
MonthStepNoGrace(original_flow, outstanding, lp, rate) ==
    LET max_payment == MulR(original_flow, lp)
        interest_payment == MulR(outstanding, rate)
        available_principal_payment == max_payment - interest_payment
        actual_principal_payment ==
            Min(available_principal_payment, outstanding)
    IN  [flow |-> original_flow, before |-> outstanding,
         interest |-> interest_payment,
         principal |-> actual_principal_payment,
         payment |-> interest_payment + actual_principal_payment,
         after |-> outstanding - actual_principal_payment]

MonthStepSubtractPayment(original_flow, outstanding, lp, rate) ==
    IF original_flow <= 0
    THEN [flow |-> original_flow, before |-> outstanding, interest |-> 0,
          principal |-> 0, payment |-> 0, after |-> outstanding]
    ELSE LET step == MonthStepNoGrace(original_flow, outstanding, lp, rate)
         IN  [step EXCEPT !.after = outstanding - step.payment]

MonthStep(original_flow, outstanding, lp, rate) ==
    IF original_flow <= 0
    THEN [flow |-> original_flow, before |-> outstanding, interest |-> 0,
          principal |-> 0, payment |-> 0, after |-> outstanding]
    ELSE LET max_payment == MulR(original_flow, lp)
             interest_payment == MulR(outstanding, rate)
             available_principal_payment == max_payment - interest_payment
             actual_principal_payment ==
                 Min(available_principal_payment, outstanding)
         IN  [flow |-> original_flow, before |-> outstanding,
              interest |-> interest_payment,
              principal |-> actual_principal_payment,
              payment |-> interest_payment + actual_principal_payment,
              after |-> outstanding - actual_principal_payment]

LoanIdle ==
    /\ original_cashflows = <<>>
    /\ loan_percentage = 0
    /\ yearly_interest_rate = 0
    /\ monthly_interest_rate = 0
    /\ loan_amount = 0
    /\ outstanding_principal = 0
    /\ lender_cashflows = <<>>
    /\ i = 0
    /\ loan_info = NoInfo
    /\ history = <<>>
    /\ pc = "idle"

LoanCall(cashflows, lp, rate) ==
    /\ original_cashflows = cashflows
    /\ loan_percentage = lp
    /\ yearly_interest_rate = rate
    /\ monthly_interest_rate = 0
    /\ loan_amount = 0
    /\ outstanding_principal = 0
    /\ lender_cashflows = <<>>
    /\ i = 0
    /\ loan_info = NoInfo
    /\ history = <<>>
    /\ pc = "start"

InitLoan ==
    \E first \in Investments, n \in 0..MaxMonths,
       lp \in LoanPercentages, rate \in YearlyRates :
        \E rest \in [1..n -> Flows] :
            LoanCall(<<first>> \o rest, lp, rate)

\* Lines 14-31: the two checks, the monthly rate, the loan amount.
Begin ==
    /\ pc = "start"
    /\ IF Len(original_cashflows) < 2 \/ original_cashflows[1] >= 0
       THEN /\ pc' = "raise"
            /\ UNCHANGED <<monthly_interest_rate, loan_amount,
                           outstanding_principal, lender_cashflows, i>>
       ELSE /\ monthly_interest_rate' = MonthlyRate(yearly_interest_rate)
            /\ loan_amount' = MulR(original_cashflows[1], loan_percentage)
            /\ lender_cashflows' =
                   <<MulR(original_cashflows[1], loan_percentage)>>
            /\ outstanding_principal' =
                   Abs(MulR(original_cashflows[1], loan_percentage))
            /\ i' = 1
            /\ pc' = "loop"
    /\ UNCHANGED <<original_cashflows, loan_percentage, yearly_interest_rate,
                   loan_info, history>>
    /\ UNCHANGED otherThanLoan

\* Lines 34-57: one month of the loop.
AmortizeMonth ==
    /\ pc = "loop"
    /\ i < Len(original_cashflows)
    /\ LET step == MonthStep(original_cashflows[i + 1], outstanding_principal,
                             loan_percentage, monthly_interest_rate)
       IN  /\ lender_cashflows' = Append(lender_cashflows, step.payment)
           /\ outstanding_principal' = step.after
           /\ history' = Append(history, step)
    /\ i' = i + 1
    /\ UNCHANGED <<original_cashflows, loan_percentage, yearly_interest_rate,
                   monthly_interest_rate, loan_amount, loan_info, pc>>
    /\ UNCHANGED otherThanLoan

\* Lines 59-74: the loan metrics.
Finish ==
    /\ pc = "loop"
    /\ i = Len(original_cashflows)
    /\ loan_info' =
           [loan_amount |-> Abs(loan_amount),
            total_payments_received |-> SumSeq(Tail(lender_cashflows)),
            final_outstanding_principal |-> outstanding_principal,
            net_return |-> SumSeq(Tail(lender_cashflows)) - Abs(loan_amount)]
    /\ pc' = "done"
    /\ UNCHANGED <<original_cashflows, loan_percentage, yearly_interest_rate,
                   monthly_interest_rate, loan_amount, outstanding_principal,
                   lender_cashflows, i, history>>
    /\ UNCHANGED otherThanLoan

NextLoan == Begin \/ AmortizeMonth \/ Finish

(***************************************************************************)
(* ReturnCapEngine: calculate_fund_returns_for_cohort, and its caller      *)
(* analyze_fund_performance.                                               *)
(***************************************************************************)
MaxCohorts == 2

SeriesLen == 60
MonthsCap == 60
MonthsPerYear == 12
FundShare == 800000
DefaultTargetIrr == 160000
DefaultMaxYears == 5

\* Inputs of the model.  A gross-profit series is two leading months and a
\* constant remainder; None is a missing cell.
SmValues == {100000}
GrossProfits == {None, 0, 56250, 62500, 150000}
TailProfits == {0, 1250}
TargetIrrs == {DefaultTargetIrr, 80000}
MaxYearsValues == {1, DefaultMaxYears, 6}

SeriesOf(a, b, tail) == <<a, b>> \o [k \in 1..(SeriesLen - 2) |-> tail]

AnalyzeRows == {SeriesOf(0, 0, 0), SeriesOf(62500, 62500, 0),
                SeriesOf(56250, 0, 1250), SeriesOf(150000, None, 0)}

NoStats == [irr_values |-> <<>>, irr_values_sorted |-> <<>>,
            irr_p25 |-> None, irr_p50 |-> None, irr_p75 |-> None,
            irr_p90 |-> None, irr_p95 |-> None, avg_irr |-> None,
            cohorts_reached_target |-> 0, cohorts_hit_max_years |-> 0]

\* Lines 39-46: 80% of each positive gross profit of the first
\* min(60, max_years * 12) months, 0 for a missing or non-positive one.
MonthlyReturns(series, years) ==
    [month \in 1..Min(MonthsCap, years * MonthsPerYear) |->
        IF series[month] # None /\ series[month] > 0
        THEN MulR(series[month], FundShare)
        ELSE 0]

HorizonFlagAlways(returns, years) == years * MonthsPerYear

HorizonFlagWhenUnpaid(returns, years) ==
    IF Len(returns) >= years * MonthsPerYear
       /\ \A k \in 1..Len(returns) : returns[k] = 0
    THEN years * MonthsPerYear
    ELSE None

\* Lines 48-50: months_to_max_years.
HorizonFlag(returns, years) ==
    IF Len(returns) >= years * MonthsPerYear
    THEN years * MonthsPerYear
    ELSE None

\* irr raises instead of returning a rate or nan.
IrrRaises(cf, failure) == ~IrrDefined(cf) /\ failure = "raise"

OnIrrErrorPropagate == "raise"

\* Lines 92-93: except: continue.
OnIrrError == "continue"

\* Lines 82-93: what the loop does in `month` (1-based: the code's
\* month + 1): the target is reached, or the loop goes on.
MonthOutcome(loan, returns, target, failure, month) ==
    LET partial_cash_flow == <<-loan>> \o SubSeq(returns, 1, month)
    IN  IF IrrRaises(partial_cash_flow, failure) THEN OnIrrError
        ELSE IF IrrAtLeast(partial_cash_flow, target) THEN "reached"
        ELSE "continue"

\* Lines 81-93: the loop runs through the months until one does not
\* continue; None when every month continues.
LoopEnd(loan, returns, target, failure) ==
    LET First[stops \in SUBSET (1..Len(returns))] ==
            IF stops = {} THEN None
            ELSE CHOOSE m \in stops : \A n \in stops : m <= n
    IN  First[{m \in 1..Len(returns) :
                 MonthOutcome(loan, returns, target, failure, m) # "continue"}]

ApplyCapZeroFromTarget(loan, returns, target, failure) ==
    LET Cap[last \in Int] ==
            IF last = None
            THEN [months_to_target |-> None, return_reached |-> FALSE,
                  raised |-> FALSE, final_monthly_returns |-> returns]
            ELSE IF MonthOutcome(loan, returns, target, failure, last)
                        = "reached"
            THEN [months_to_target |-> last, return_reached |-> TRUE,
                  raised |-> FALSE,
                  final_monthly_returns |->
                      [k \in 1..Len(returns) |->
                          IF k < last THEN returns[k] ELSE 0]]
            ELSE [months_to_target |-> None, return_reached |-> FALSE,
                  raised |-> TRUE, final_monthly_returns |-> returns]
    IN  Cap[LoopEnd(loan, returns, target, failure)]

\* Lines 75-93: the first month whose prefix reaches the target, and the
\* returns with every later month set to 0.
ApplyCap(loan, returns, target, failure) ==
    LET Cap[last \in Int] ==
            IF last = None
            THEN [months_to_target |-> None, return_reached |-> FALSE,
                  raised |-> FALSE, final_monthly_returns |-> returns]
            ELSE IF MonthOutcome(loan, returns, target, failure, last)
                        = "reached"
            THEN [months_to_target |-> last, return_reached |-> TRUE,
                  raised |-> FALSE,
                  final_monthly_returns |->
                      [k \in 1..Len(returns) |->
                          IF k <= last THEN returns[k] ELSE 0]]
            ELSE [months_to_target |-> None, return_reached |-> FALSE,
                  raised |-> TRUE, final_monthly_returns |-> returns]
    IN  Cap[LoopEnd(loan, returns, target, failure)]

\* Lines 134-153: calculate_simple_irr.  It is called when irr raises, that
\* is for a flow without a positive return or without a loan, where it
\* returns 0 or -1; its third branch (a fractional power of the total
\* return) is not reached from such a flow.
CalculateSimpleIrr(loan, returns) ==
    IF loan <= 0 THEN 0
    ELSE IF SumSeq(returns) <= 0 THEN -R
    ELSE NaN

\* Lines 63-70 and 100-105: a rate that is not finite is reported as 0.
FiniteOrZero(rate) == IF rate # NaN THEN rate ELSE 0

FundIdle ==
    /\ sm_value = 0
    /\ gross_profit_series = <<>>
    /\ target_irr = 0
    /\ max_years = 0
    /\ irr_failure = "nan"
    /\ caller = "none"
    /\ fund_loan_amount = 0
    /\ monthly_returns = <<>>
    /\ cumulative_return = 0
    /\ months_to_target = None
    /\ months_to_max_years = None
    /\ return_reached = FALSE
    /\ final_monthly_returns = <<>>
    /\ final_cumulative_return = 0
    /\ actual_irr = 0
    /\ fpc = "idle"
    /\ fund_results = <<>>
    /\ irr_stats = NoStats

InitFund ==
    /\ sm_value = 0
    /\ gross_profit_series = <<>>
    /\ target_irr = 0
    /\ max_years = 0
    /\ irr_failure \in {"nan", "raise"}
    /\ caller = "none"
    /\ fund_loan_amount = 0
    /\ monthly_returns = <<>>
    /\ cumulative_return = 0
    /\ months_to_target = None
    /\ months_to_max_years = None
    /\ return_reached = FALSE
    /\ final_monthly_returns = <<>>
    /\ final_cumulative_return = 0
    /\ actual_irr = 0
    /\ fpc = "entry"
    /\ fund_results = <<>>
    /\ irr_stats = NoStats

\* A call of calculate_fund_returns_for_cohort: its arguments, and its
\* locals as lines 33-37 set them.
Call(c, sm, series, target, years) ==
    /\ caller' = c
    /\ sm_value' = sm
    /\ gross_profit_series' = series
    /\ target_irr' = target
    /\ max_years' = years
    /\ fund_loan_amount' = 0
    /\ monthly_returns' = <<>>
    /\ cumulative_return' = 0
    /\ months_to_target' = None
    /\ months_to_max_years' = None
    /\ return_reached' = FALSE
    /\ final_monthly_returns' = <<>>
    /\ final_cumulative_return' = 0
    /\ actual_irr' = 0
    /\ fpc' = "start"
    /\ UNCHANGED irr_failure

\* A call with arguments of the caller's choice.
DirectCall ==
    /\ fpc = "entry"
    /\ \E sm \in SmValues, a \in GrossProfits, b \in GrossProfits,
          tail \in TailProfits, target \in TargetIrrs,
          years \in MaxYearsValues :
           Call("direct", sm, SeriesOf(a, b, tail), target, years)
    /\ UNCHANGED <<fund_results, irr_stats>>
    /\ UNCHANGED otherThanFund

\* analyze_fund_performance, lines 239-256: the next row of the table, with
\* the default target_irr and max_years.
AnalyzeRow ==
    /\ fpc \in {"entry", "recorded"}
    /\ Len(fund_results) < MaxCohorts
    /\ \E sm \in SmValues, series \in AnalyzeRows :
           Call("analyze", sm, series, DefaultTargetIrr, DefaultMaxYears)
    /\ UNCHANGED <<fund_results, irr_stats>>
    /\ UNCHANGED otherThanFund

\* Lines 29-73: the loan, the monthly returns, the horizon flag and the IRR
\* of the uncapped flow (an exception of irr other than ImportError leaves
\* the function).
BuildReturns ==
    /\ fpc = "start"
    /\ LET loan == MulR(sm_value, FundShare)
           returns == MonthlyReturns(gross_profit_series, max_years)
           cash_flow == <<-loan>> \o returns
           calls_irr == Len(cash_flow) > 1 /\ cash_flow[1] < 0
       IN  /\ fund_loan_amount' = loan
           /\ monthly_returns' = returns
           /\ cumulative_return' = SumSeq(returns)
           /\ months_to_max_years' = HorizonFlag(returns, max_years)
           /\ IF calls_irr /\ IrrRaises(cash_flow, irr_failure)
              THEN fpc' = "raise" /\ UNCHANGED actual_irr
              ELSE /\ fpc' = "scan"
                   /\ actual_irr' =
                          IF calls_irr THEN FiniteOrZero(Irr(cash_flow)) ELSE 0
    /\ UNCHANGED <<months_to_target, return_reached, final_monthly_returns,
                   final_cumulative_return>>
    /\ UNCHANGED <<fundArgs, fund_results, irr_stats>>
    /\ UNCHANGED otherThanFund

\* Lines 75-93: the prefix scan and the cap.
CapScan ==
    /\ fpc = "scan"
    /\ LET capped == ApplyCap(fund_loan_amount, monthly_returns, target_irr,
                              irr_failure)
       IN  /\ months_to_target' = capped.months_to_target
           /\ return_reached' = capped.return_reached
           /\ final_monthly_returns' = capped.final_monthly_returns
           /\ fpc' = IF capped.raised THEN "raise_scan" ELSE "capped"
    /\ UNCHANGED <<fund_loan_amount, monthly_returns, cumulative_return,
                   months_to_max_years, final_cumulative_return, actual_irr>>
    /\ UNCHANGED <<fundArgs, fund_results, irr_stats>>
    /\ UNCHANGED otherThanFund

\* Lines 95-132: the capped cumulative return and the IRR of the capped
\* flow.
FinalReturns ==
    /\ fpc = "capped"
    /\ LET final_cash_flow == <<-fund_loan_amount>> \o final_monthly_returns
       IN  actual_irr' =
               IF IrrRaises(final_cash_flow, irr_failure)
               THEN CalculateSimpleIrr(fund_loan_amount, final_monthly_returns)
               ELSE FiniteOrZero(Irr(final_cash_flow))
    /\ final_cumulative_return' = SumSeq(final_monthly_returns)
    /\ fpc' = "done"
    /\ UNCHANGED <<fund_loan_amount, monthly_returns, cumulative_return,
                   months_to_target, months_to_max_years, return_reached,
                   final_monthly_returns>>
    /\ UNCHANGED <<fundArgs, fund_results, irr_stats>>
    /\ UNCHANGED otherThanFund

\* analyze_fund_performance, lines 256-264: the result joins fund_results.
\* Of the result the model keeps the fields the statistics read, and
\* beside them whether irr had a rate for the capped flow.
RecordCohort ==
    /\ fpc = "done"
    /\ caller = "analyze"
    /\ fund_results' = Append(fund_results,
           [actual_irr |-> actual_irr,
            return_reached |-> return_reached,
            months_to_max_years |-> months_to_max_years,
            irr_defined |->
                IrrDefined(<<-fund_loan_amount>> \o final_monthly_returns)])
    /\ fpc' = "recorded"
    /\ UNCHANGED <<fundArgs, fundLocals, irr_stats>>
    /\ UNCHANGED otherThanFund

\* sorted(values)[int(q * len(values))], q in hundredths.
Percentile(sorted, q) == sorted[((q * Len(sorted)) \div 100) + 1]

ReachedTarget(r) == r.return_reached
HitMaxYears(r) == r.months_to_max_years # None
NotAfter(a, b) == a <= b

\* Lines 272-302: the IRR statistics over all results (the table has at
\* least one row).
ComputeStats ==
    /\ fpc = "recorded"
    /\ LET irr_values == [k \in 1..Len(fund_results) |->
                             fund_results[k].actual_irr]
           irr_values_sorted == SortSeq(irr_values, NotAfter)
       IN  irr_stats' =
               [irr_values |-> irr_values,
                irr_values_sorted |-> irr_values_sorted,
                irr_p25 |-> Percentile(irr_values_sorted, 25),
                irr_p50 |-> Percentile(irr_values_sorted, 50),
                irr_p75 |-> Percentile(irr_values_sorted, 75),
                irr_p90 |-> Percentile(irr_values_sorted, 90),
                irr_p95 |-> Percentile(irr_values_sorted, 95),
                avg_irr |-> SumSeq(irr_values) \div Len(irr_values),
                cohorts_reached_target |->
                    Cardinality({k \in 1..Len(fund_results) :
                                    ReachedTarget(fund_results[k])}),
                cohorts_hit_max_years |->
                    Cardinality({k \in 1..Len(fund_results) :
                                    HitMaxYears(fund_results[k])})]
    /\ fpc' = "reported"
    /\ UNCHANGED <<fundArgs, fundLocals, fund_results>>
    /\ UNCHANGED otherThanFund

NextFund ==
    \/ DirectCall
    \/ AnalyzeRow
    \/ BuildReturns
    \/ CapScan
    \/ FinalReturns
    \/ RecordCohort
    \/ ComputeStats

(***************************************************************************)
(* HistoricalRatioModel and RatioSampler: build_prediction_algorithm,      *)
(* calculate_12_month_cac, run_single_prediction_ratio and                 *)
(* predict_next_12_months.                                                 *)
(*                                                                         *)
(* Units: spend and revenue are whole currency units, a ratio is an        *)
(* integer number of thousandths, a probability an integer number of       *)
(* millionths.  A history is a sequence of months in chronological order;  *)
(* every month has a revenue record, and None in sm_dict is a month        *)
(* without a spend record (revenue_dict.get(month, 0) makes a month        *)
(* without a revenue record the same as one with revenue 0).               *)
(***************************************************************************)
MaxHistory == 2

RatioUnit == 1000
HeadsRatio == 10000 * RatioUnit
ForecastMonths == 12
GrowthFactor == 1100000
CacWindow == 12
MarginalCacMonths == 24
\* What a division by zero leaves in place of a value.
ZeroDivisionError == -4000000

SpendValues == {None, -100, 0, 100, 150000}
RevenueValues == {0, 10, 15}
\* random.random(), in millionths.
Uniforms == {0, 999999}

\* The history of the end-to-end example: sm = [150000, 180000],
\* revenue = [300000, 200000].
ExampleSpend == <<150000, 180000>>
ExampleRevenue == <<300000, 200000>>

\* a * 10^k / b for a >= 0 and b > 0, by long division.
RECURSIVE LongDivision(_, _, _, _)
LongDivision(q, r, b, k) ==
    IF k = 0 THEN q
    ELSE LongDivision(q * 10 + (r * 10) \div b, (r * 10) % b, b, k - 1)

\* a * 10^k / b for b # 0, with the sign of the float quotient.
Quotient(a, b, k) ==
    IF (a < 0) # (b < 0)
    THEN -LongDivision(Abs(a) \div Abs(b), Abs(a) % Abs(b), Abs(b), k)
    ELSE LongDivision(Abs(a) \div Abs(b), Abs(a) % Abs(b), Abs(b), k)

\* dict.get(month, 0)
GetOrZero(dict, month) == IF dict[month] = None THEN 0 ELSE dict[month]

\* The first month of all_months[-n:], of n_months months.
FirstOfLast(n_months, n) == IF n_months >= n THEN n_months - n + 1 ELSE 1

\* sum(dict.get(month, 0) or 0 for month in lo..hi)
SumOver(dict, lo, hi) ==
    SumSeq([k \in 1..(hi - lo + 1) |-> GetOrZero(dict, lo + k - 1)])

\* calculate_12_month_cac, in thousandths.
Calculate12MonthCac(sm, revenue) ==
    LET n_months == Len(revenue)
        first == FirstOfLast(n_months, CacWindow)
        total_sm_12m == SumOver(sm, first, n_months)
        total_revenue_12m == SumOver(revenue, first, n_months)
        cac_12m == IF total_revenue_12m > 0
                   THEN Quotient(total_sm_12m, total_revenue_12m, 3)
                   ELSE 0
        sm_diff ==
            total_sm_12m - SumOver(sm, first - CacWindow, first - 1)
        rev_diff ==
            total_revenue_12m - SumOver(revenue, first - CacWindow, first - 1)
        marginal_cac == IF rev_diff > 0 THEN Quotient(sm_diff, rev_diff, 3)
                        ELSE 0
    IN  IF n_months >= MarginalCacMonths /\ marginal_cac > cac_12m
        THEN marginal_cac
        ELSE cac_12m

\* Lines 168-178: the ratio of a month, None without revenue.
MonthRatio(sm, revenue, month) ==
    IF revenue[month] # None /\ revenue[month] > 0
    THEN Quotient(GetOrZero(sm, month), revenue[month], 3)
    ELSE None

IsHeadsAtLeast(ratio) == ratio = None \/ ratio >= HeadsRatio

\* Lines 181-184: the test of heads_count.
IsHeads(ratio) == ratio = None \/ ratio > HeadsRatio

\* heads_count / len(ratios), in millionths, 0 for no ratios.
HeadsShare(ratios, months) ==
    IF months = {} THEN 0
    ELSE (Cardinality({m \in months : IsHeads(ratios[m])}) * R)
             \div Cardinality(months)

Larger(a, b) == IF a >= b THEN a ELSE b

PoolOfAtMost(ratios) ==
    SelectSeq(ratios, LAMBDA ratio : ratio # None /\ ratio <= HeadsRatio)

\* The entries of a sequence that satisfy a test of the pool, in order.
RECURSIVE PoolOf(_)
PoolOf(ratios) ==
    IF ratios = <<>> THEN <<>>
    ELSE IF Head(ratios) # None /\ Head(ratios) < HeadsRatio
         THEN <<Head(ratios)>> \o PoolOf(Tail(ratios))
         ELSE PoolOf(Tail(ratios))

\* build_prediction_algorithm.
BuildPredictionAlgorithm(sm, revenue, mode) ==
    LET all_months == 1..Len(revenue)
        ratios == [m \in all_months |-> MonthRatio(sm, revenue, m)]
        heads_percentage_overall == HeadsShare(ratios, all_months)
        heads_percentage_last_12 ==
            HeadsShare(ratios,
                       FirstOfLast(Len(revenue), CacWindow)..Len(revenue))
    IN  [heads_percentage |->
             IF mode
             THEN Larger(heads_percentage_overall, heads_percentage_last_12)
             ELSE heads_percentage_overall,
         heads_percentage_overall |-> heads_percentage_overall,
         heads_percentage_last_12 |-> heads_percentage_last_12,
         distribution |-> PoolOf(ratios),
         cac_12m |-> Calculate12MonthCac(sm, revenue),
         historical_ratios |-> ratios,
         conservative |-> mode]

NoAlgorithm == [heads_percentage |-> 0, heads_percentage_overall |-> 0,
                heads_percentage_last_12 |-> 0, distribution |-> <<>>,
                cac_12m |-> 0, historical_ratios |-> <<>>,
                conservative |-> FALSE]

\* 1.1 ** n, in millionths.
RECURSIVE Growth(_)
Growth(n) == IF n = 0 THEN R ELSE MulR(Growth(n - 1), GrowthFactor)

\* last_sm * (1.1 ** (i + 1)) for the code's i = month - 1.
SpendOf(last_sm, month) == MulR(last_sm, Growth(month))

AfterChoicePopped(distribution) ==
    IF distribution = <<>> THEN <<>> ELSE Tail(distribution)

\* algorithm_data['distribution'] after the draws of a run: random.choice
\* reads the list, and nothing in the two samplers writes to it.
AfterChoice(distribution) == distribution

\* random.choice(distribution) for a draw.
Choice(distribution, draw) ==
    distribution[((draw.pick - 1) % Len(distribution)) + 1]

\* sm_value / ((last_sm / drawn_ratio) + ((sm_value - last_sm) / cac_12m)),
\* the two quotients in hundredths of a currency unit.
Blend(spend, last_sm, drawn_ratio, cac) ==
    IF drawn_ratio = 0 \/ cac = 0 THEN ZeroDivisionError
    ELSE LET converted == Quotient(last_sm, drawn_ratio, 5)
                          + Quotient(spend - last_sm, cac, 5)
         IN  IF converted = 0 THEN ZeroDivisionError
             ELSE Quotient(spend, converted, 5)

\* Lines 22-51 of run_single_prediction_ratio: the predicted ratio of one
\* forecast month.
RunSingleRatio(last_sm, alg, draw, month) ==
    IF draw.u < alg.heads_percentage
    THEN SpendOf(last_sm, month) * RatioUnit
    ELSE IF alg.distribution # <<>>
    THEN IF /\ alg.conservative
            /\ Choice(alg.distribution, draw) < alg.cac_12m
         THEN IF SpendOf(last_sm, month) > last_sm
              THEN Blend(SpendOf(last_sm, month), last_sm,
                         Choice(alg.distribution, draw), alg.cac_12m)
              ELSE Choice(alg.distribution, draw)
         ELSE Choice(alg.distribution, draw)
    ELSE alg.cac_12m

\* Lines 243-272 of predict_next_12_months: the predicted ratio of one
\* forecast month.
PredictRatio(last_sm, alg, draw, month) ==
    IF draw.u < alg.heads_percentage
    THEN SpendOf(last_sm, month) * RatioUnit
    ELSE IF alg.distribution # <<>>
    THEN IF /\ alg.conservative
            /\ Choice(alg.distribution, draw) < alg.cac_12m
         THEN IF /\ SpendOf(last_sm, month) > last_sm
                 /\ Choice(alg.distribution, draw) > 0
              THEN Blend(SpendOf(last_sm, month), last_sm,
                         Choice(alg.distribution, draw), alg.cac_12m)
              ELSE Choice(alg.distribution, draw)
         ELSE Choice(alg.distribution, draw)
    ELSE alg.cac_12m

\* Line 275: predicted_revenue, in whole currency units.
PredictedRevenue(spend, predicted_ratio) ==
    IF predicted_ratio > 0 THEN Quotient(spend, predicted_ratio, 3) ELSE 0

\* Lines 13-18 of run_single_prediction_ratio: the spend of the last of
\* all months, 0 without a spend record.
RunSingleLastSm(sm, revenue) == GetOrZero(sm, Len(revenue))

\* Lines 227-237 of predict_next_12_months: the months with a spend record,
\* and the spend of the last of them.
SmMonths(sm) == {m \in 1..Len(sm) : sm[m] # None}
PredictLastSm(sm) == sm[CHOOSE m \in SmMonths(sm) : \A n \in SmMonths(sm) : n <= m]

\* A run raises when one of its months divides by zero.
Raises(ratios) == \E m \in 1..Len(ratios) : ratios[m] = ZeroDivisionError

SamplerIdle ==
    /\ sm_dict = <<>>
    /\ revenue_dict = <<>>
    /\ conservative = FALSE
    /\ algorithm_data = NoAlgorithm
    /\ draws = <<>>
    /\ simulation_data = <<>>
    /\ predictions = <<>>
    /\ spc = "idle"
    /\ run_pc = "idle"
    /\ predict_pc = "idle"

\* The draws of a run, one per forecast month: u = random.random() and the
\* pick of random.choice.  The runs of the model draw the same pair every
\* month, or alternate it with heads.
Draws == [u : Uniforms, pick : 1..MaxHistory]
DrawPlans ==
    {[m \in 1..ForecastMonths |-> d] : d \in Draws}
    \cup {[m \in 1..ForecastMonths |->
              IF m % 2 = 1 THEN [u |-> 0, pick |-> 1] ELSE d] :
          d \in {e \in Draws : e.u # 0}}

Histories ==
    {<<ExampleSpend, ExampleRevenue>>}
    \cup UNION {[1..n -> SpendValues] \X [1..n -> RevenueValues] :
                n \in 1..MaxHistory}

InitSampler ==
    \E series \in Histories, mode \in BOOLEAN, plan \in DrawPlans :
        /\ sm_dict = series[1]
        /\ revenue_dict = series[2]
        /\ conservative = mode
        /\ algorithm_data = NoAlgorithm
        /\ draws = plan
        /\ simulation_data = <<>>
        /\ predictions = <<>>
        /\ spc = "start"
        /\ run_pc = "idle"
        /\ predict_pc = "idle"

\* build_prediction_algorithm(sm_dict, revenue_dict, conservative)
BuildAlgorithm ==
    /\ spc = "start"
    /\ algorithm_data' =
           BuildPredictionAlgorithm(sm_dict, revenue_dict, conservative)
    /\ spc' = "built"
    /\ run_pc' = "ready"
    /\ predict_pc' = "ready"
    /\ UNCHANGED <<sm_dict, revenue_dict, conservative, draws,
                   simulation_data, predictions>>
    /\ UNCHANGED otherThanSampler

\* run_single_prediction_ratio(sm_dict, revenue_dict, algorithm_data)
RunSinglePredictionRatio ==
    /\ run_pc = "ready"
    /\ LET last_sm == RunSingleLastSm(sm_dict, revenue_dict)
           ratios == [m \in 1..ForecastMonths |->
                         RunSingleRatio(last_sm, algorithm_data, draws[m], m)]
       IN  IF Raises(ratios)
           THEN run_pc' = "raise" /\ UNCHANGED simulation_data
           ELSE /\ run_pc' = "done"
                /\ simulation_data' =
                       [m \in 1..ForecastMonths |->
                           [sm_value |-> SpendOf(last_sm, m),
                            predicted_ratio |-> ratios[m]]]
    /\ algorithm_data' =
           [algorithm_data EXCEPT !.distribution = AfterChoice(@)]
    /\ UNCHANGED <<sm_dict, revenue_dict, conservative, draws,
                   predictions, spc, predict_pc>>
    /\ UNCHANGED otherThanSampler

\* predict_next_12_months(sm_dict, revenue_dict, algorithm_data)
PredictNext12Months ==
    /\ predict_pc = "ready"
    /\ IF SmMonths(sm_dict) = {}
       THEN predict_pc' = "done" /\ predictions' = <<>>
       ELSE LET last_sm == PredictLastSm(sm_dict)
                ratios == [m \in 1..ForecastMonths |->
                              PredictRatio(last_sm, algorithm_data, draws[m],
                                           m)]
            IN  IF Raises(ratios)
                THEN predict_pc' = "raise" /\ UNCHANGED predictions
                ELSE /\ predict_pc' = "done"
                     /\ predictions' =
                            [m \in 1..ForecastMonths |->
                                [sm_value |-> SpendOf(last_sm, m),
                                 predicted_ratio |-> ratios[m],
                                 predicted_revenue |->
                                     PredictedRevenue(SpendOf(last_sm, m),
                                                      ratios[m])]]
    /\ algorithm_data' =
           [algorithm_data EXCEPT !.distribution = AfterChoice(@)]
    /\ UNCHANGED <<sm_dict, revenue_dict, conservative, draws,
                   simulation_data, spc, run_pc>>
    /\ UNCHANGED otherThanSampler

NextSampler ==
    \/ BuildAlgorithm
    \/ RunSinglePredictionRatio
    \/ PredictNext12Months

(***************************************************************************)
(* RetentionTable, NDRFloorCalculator and RetentionCurveSampler:           *)
(* get_retention_table, get_min_ndr_12th_root, calculate_ndr_evolution,    *)
(* simulate_retention_curve and simulate_1000_retention_curves.            *)
(*                                                                         *)
(* Units: revenue is whole currency units; a retention cell, an NDR and    *)
(* the floor are integer numbers of millionths.  cohorts_data is the list  *)
(* of the cohorts' revenue_array, all of one length; Python's row r and    *)
(* column c are the entries r + 1 and c + 1 of the sequences.  None in a   *)
(* revenue_array is a month without a value (JSON null; the empty string   *)
(* the code also tests for is not modelled).                               *)
(***************************************************************************)
MaxMarked == 2

CurveMonths == 60
NdrMonths == 12

\* What a sum with a None operand leaves in place of a value.
TypeError == -5000000

\* Shapes of the cohort file: <<number of cohorts, months per cohort>>.
Shapes == {<<1, 14>>, <<3, 2>>, <<3, 14>>, <<15, 6>>, <<15, 14>>, <<15, 61>>}
MarkValues == {None, 0, 1000}
MarkedCohorts == {"all", "odd"}

\* The revenue of cohort row in month col where nothing is marked.
BaseRevenue(row, col) == 1000 + 100 * ((row + col) % 5)

\* The cohort file of a shape: the first months of the marked cohorts hold
\* the marks, every other month its base revenue.
CohortsData(shape, marks, marked) ==
    [r \in 1..shape[1] |->
        [c \in 1..shape[2] |->
            IF c <= Len(marks) /\ (marked = "all" \/ r % 2 = 0)
            THEN marks[c]
            ELSE BaseRevenue(r - 1, c - 1)]]

\* curr / left, or None: one cell of a row of get_retention_table.
Cell(left, curr) ==
    IF left \notin {None, 0} /\ curr # None
    THEN Quotient(curr, left, 6)
    ELSE None

\* The row of one revenue_array, before the cap.
RetentionRow(rev) == [j \in 1..(Len(rev) - 1) |-> Cell(rev[j], rev[j + 1])]

MaxLenFromRowOne(row, cols) == Larger(cols - row, 0)

\* max_len of row i (counted from 0).
MaxLen(row, cols) == IF row >= 2 THEN Larger(cols - (row - 1), 0) ELSE cols

\* row[:max_len]
Truncate(row, max_len) ==
    IF Len(row) > max_len THEN SubSeq(row, 1, max_len) ELSE row

\* get_retention_table: the capped rows, without the last one.
RetentionTable(data) ==
    [k \in 1..(Len(data) - 1) |->
        Truncate(RetentionRow(data[k]), MaxLen(k - 1, Len(data[1]) - 1))]

\* The while loop of an ending column: the cells <<row, col>> it visits.
RECURSIVE DiagonalWalk(_, _, _)
DiagonalWalk(rows, row, col) ==
    IF row < rows /\ col >= NdrMonths
    THEN <<<<row, col>>>> \o DiagonalWalk(rows, row + 1, col - 1)
    ELSE <<>>

NdrCellsSameColumn(rows, end_col) ==
    <<<<0, end_col>>>>
    \o (IF 1 < rows THEN <<<<1, end_col>>>> ELSE <<>>)
    \o DiagonalWalk(rows, 2, end_col)

\* The cells whose revenue the numerator of an ending column adds, in the
\* order of the additions.
NdrCells(rows, end_col) ==
    <<<<0, end_col>>>>
    \o (IF 1 < rows THEN <<<<1, end_col>>>> ELSE <<>>)
    \o DiagonalWalk(rows, 2, end_col - 1)

\* revenue_array[col] of cohorts_data[row], and its base 12 columns earlier.
RetainedValue(data, cell) == data[cell[1] + 1][cell[2] + 1]
BaseValue(data, cell) == data[cell[1] + 1][cell[2] - NdrMonths + 1]

\* One iteration of the loop over the ending columns: the cells added, the
\* two sums, and the NDR (None when the denominator is not positive,
\* TypeError when one of the values added is None).
NdrOf(data, end_col) ==
    LET cells == NdrCells(Len(data), end_col)
        retained == [k \in 1..Len(cells) |-> RetainedValue(data, cells[k])]
        base == [k \in 1..Len(cells) |-> BaseValue(data, cells[k])]
        numerator == SumSeq(retained)
        denominator == SumSeq(base)
    IN  [end_col |-> end_col,
         cells |-> cells,
         numerator |-> numerator,
         denominator |-> denominator,
         ndr |-> IF \E k \in 1..Len(cells) :
                        retained[k] = None \/ base[k] = None
                 THEN TypeError
                 ELSE IF denominator > 0
                 THEN Quotient(numerator, denominator, 6)
                 ELSE None]

\* range(num_months - 1, 11, -1)
EndCols(num_months) ==
    [k \in 1..Larger(num_months - NdrMonths, 0) |-> num_months - k]

\* The loop over the ending columns.
NdrLoop(data) ==
    LET end_cols == EndCols(Len(data[1]))
    IN  [k \in 1..Len(end_cols) |-> NdrOf(data, end_cols[k])]

NdrRaises(terms) == \E k \in 1..Len(terms) : terms[k].ndr = TypeError

\* ndr_values: the NDRs that are not None.
NdrValues(terms) ==
    {terms[k].ndr : k \in {j \in 1..Len(terms) : terms[j].ndr # None}}

\* x ** (1/12) for 0 <= x < 129 in millionths (the root is then below 1.5).
Root12(x) ==
    IF x = 0 THEN 0
    ELSE R + RootSearch(x - R, -R, Larger(Min(x - R, R \div 2), 0))

\* What get_min_ndr_12th_root returns for the terms of its loop.
MinNdr12thRoot(terms) ==
    IF NdrValues(terms) = {}
    THEN R
    ELSE Root12(CHOOSE x \in NdrValues(terms) :
                    \A y \in NdrValues(terms) : x <= y)

\* col_values: the values of a column (counted from 0) that are not None,
\* in the rows from k on; retention_table[1:] is the rows from 2 on.
RECURSIVE ColumnValues(_, _, _)
ColumnValues(table, col, k) ==
    IF k > Len(table) THEN <<>>
    ELSE (IF col < Len(table[k]) /\ table[k][col + 1] # None
          THEN <<table[k][col + 1]>>
          ELSE <<>>)
         \o ColumnValues(table, col, k + 1)

\* The values of the columns 0..59, column c at index c + 1.
Columns(table) == [c \in 1..CurveMonths |-> ColumnValues(table, c - 1, 2)]

\* for c in range(col - 1, -1, -1): the non-empty columns found from c
\* down, until quota of them are found.
RECURSIVE LeftScan(_, _, _, _)
LeftScan(columns, c, found, quota) ==
    IF c < 0 THEN found
    ELSE IF columns[c + 1] # <<>>
    THEN IF Len(found) + 1 = quota
         THEN Append(found, c)
         ELSE LeftScan(columns, c - 1, Append(found, c), quota)
    ELSE LeftScan(columns, c - 1, found, quota)

LeftColsWithin(columns, col, quota) ==
    SelectSeq(LeftScan(columns, col - 1, <<>>, quota),
              LAMBDA c : col - c <= quota)

\* left_cols of a branch that looks for quota columns.
LeftCols(columns, col, quota) == LeftScan(columns, col - 1, <<>>, quota)

\* for c in range(col + 1, 60)
RECURSIVE RightScan(_, _, _, _)
RightScan(columns, c, found, quota) ==
    IF c >= CurveMonths THEN found
    ELSE IF columns[c + 1] # <<>>
    THEN IF Len(found) + 1 = quota
         THEN Append(found, c)
         ELSE RightScan(columns, c + 1, Append(found, c), quota)
    ELSE RightScan(columns, c + 1, found, quota)

RightCols(columns, col, quota) == RightScan(columns, col + 1, <<>>, quota)

SelectColumnsFiveIsSparse(columns, col) ==
    LET n == Len(columns[col + 1])
    IN  IF n >= 12
        THEN [left_cols |-> LeftCols(columns, col, 1),
              right_cols |-> RightCols(columns, col, 1)]
        ELSE IF n > 5
        THEN [left_cols |-> LeftCols(columns, col, 2),
              right_cols |-> RightCols(columns, col, 2)]
        ELSE IF n >= 2
        THEN [left_cols |-> LeftCols(columns, col, 3),
              right_cols |-> RightCols(columns, col, 3)]
        ELSE [left_cols |-> LeftCols(columns, col, 5),
              right_cols |-> RightCols(columns, col, 5)]

\* The four branches on len(col_values): the columns each one adds to the
\* left and to the right (the first branch keeps one column or None on
\* each side, the others lists of two, three and five).
SelectColumns(columns, col) ==
    LET n == Len(columns[col + 1])
    IN  IF n >= 12
        THEN [left_cols |-> LeftCols(columns, col, 1),
              right_cols |-> RightCols(columns, col, 1)]
        ELSE IF n >= 5
        THEN [left_cols |-> LeftCols(columns, col, 2),
              right_cols |-> RightCols(columns, col, 2)]
        ELSE IF n >= 2
        THEN [left_cols |-> LeftCols(columns, col, 3),
              right_cols |-> RightCols(columns, col, 3)]
        ELSE [left_cols |-> LeftCols(columns, col, 5),
              right_cols |-> RightCols(columns, col, 5)]

\* The values of the columns of a list, one column after the other.
RECURSIVE Extend(_, _, _)
Extend(columns, cols, k) ==
    IF k > Len(cols) THEN <<>>
    ELSE columns[cols[k] + 1] \o Extend(columns, cols, k + 1)

\* The values of a sequence, each one once.
RECURSIVE Distinct(_)
Distinct(s) ==
    IF s = <<>> THEN <<>>
    ELSE LET rest == Distinct(SubSeq(s, 1, Len(s) - 1))
         IN  IF \E k \in 1..(Len(s) - 1) : s[k] = s[Len(s)]
             THEN rest
             ELSE Append(rest, s[Len(s)])

AllValuesDistinct(columns, col, selected) ==
    Distinct(columns[col + 1]
             \o Extend(columns, selected.left_cols, 1)
             \o Extend(columns, selected.right_cols, 1))

\* all_values: col_values, then the left columns, then the right columns.
AllValues(columns, col, selected) ==
    columns[col + 1]
    \o Extend(columns, selected.left_cols, 1)
    \o Extend(columns, selected.right_cols, 1)

\* The columns selected and the pool built for each of the 60 columns.
Pools(table) ==
    LET Of[columns \in Seq(Seq(Int))] ==
            [c \in 1..CurveMonths |->
                LET At[selected \in [left_cols : Seq(Int),
                                     right_cols : Seq(Int)]] ==
                        [left_cols |-> selected.left_cols,
                         right_cols |-> selected.right_cols,
                         all_values |-> AllValues(columns, c - 1, selected)]
                IN  At[SelectColumns(columns, c - 1)]]
    IN  Of[Columns(table)]

\* random.choice(all_values) if all_values else None (the first branch
\* chooses without the test: its all_values holds 12 values or more).  A
\* simulation of the model draws the first value of every pool, or the last
\* of every pool.
ChoicePlans == <<"first", "last">>
RandomChoice(all_values, plan) ==
    IF all_values = <<>> THEN None
    ELSE IF plan = "first" THEN all_values[1]
    ELSE all_values[Len(all_values)]

DampenToFloor(chosen, mode, floor) ==
    IF mode /\ chosen # None /\ chosen > Larger(R, floor)
    THEN Larger(R, floor)
    ELSE chosen

\* The conservative adjustment of a chosen value.
Dampen(chosen, mode, floor) ==
    IF mode /\ chosen # None /\ chosen > Larger(R, floor)
    THEN (Larger(R, floor) + chosen) \div 2
    ELSE chosen

\* simulated_curve, for the pools of the 60 columns.
SimulatedCurve(pools, mode, floor, plan) ==
    [c \in 1..CurveMonths |->
        Dampen(RandomChoice(pools[c].all_values, plan), mode, floor)]

RetentionIdle ==
    /\ cohorts_data = <<>>
    /\ retention_table = <<>>
    /\ num_cols = 0
    /\ ndr_terms = <<>>
    /\ min_ndr_12th_root = None
    /\ ndr_evolution = <<>>
    /\ backend_conservative = FALSE
    /\ pool_records = <<>>
    /\ simulated_curve = <<>>
    /\ deploy_conservative = FALSE
    /\ deploy_records = <<>>
    /\ all_curves = <<>>
    /\ rpc = "idle"
    /\ curve_pc = "idle"
    /\ deploy_pc = "idle"
    /\ evolution_pc = "idle"

\* full_cohort_data.json holds the cohorts of one shape.
InitRetention ==
    \E shape \in Shapes, marks \in [1..MaxMarked -> MarkValues],
       marked \in MarkedCohorts :
        /\ cohorts_data = CohortsData(shape, marks, marked)
        /\ retention_table = <<>>
        /\ num_cols = 0
        /\ ndr_terms = <<>>
        /\ min_ndr_12th_root = None
        /\ ndr_evolution = <<>>
        /\ backend_conservative = FALSE
        /\ pool_records = <<>>
        /\ simulated_curve = <<>>
        /\ deploy_conservative = FALSE
        /\ deploy_records = <<>>
        /\ all_curves = <<>>
        /\ rpc = "start"
        /\ curve_pc = "idle"
        /\ deploy_pc = "idle"
        /\ evolution_pc = "ready"

\* get_retention_table()
GetRetentionTable ==
    /\ rpc = "start"
    /\ retention_table' = RetentionTable(cohorts_data)
    /\ num_cols' = Len(cohorts_data[1]) - 1
    /\ rpc' = "table"
    /\ UNCHANGED <<cohorts_data, ndr_terms, min_ndr_12th_root, ndr_evolution,
                   backend_conservative, pool_records, simulated_curve,
                   deploy_conservative, deploy_records, all_curves,
                   curve_pc, deploy_pc, evolution_pc>>
    /\ UNCHANGED otherThanRetention

\* get_min_ndr_12th_root(), as the two curve samplers call it after
\* get_retention_table().
GetMinNdr12thRoot ==
    /\ rpc = "table"
    /\ ndr_terms' = NdrLoop(cohorts_data)
    /\ IF NdrRaises(ndr_terms')
       THEN /\ rpc' = "raise"
            /\ UNCHANGED <<min_ndr_12th_root, curve_pc, deploy_pc>>
       ELSE /\ rpc' = "floor"
            /\ min_ndr_12th_root' = MinNdr12thRoot(ndr_terms')
            /\ curve_pc' = "ready"
            /\ deploy_pc' = "ready"
    /\ UNCHANGED <<cohorts_data, retention_table, num_cols, ndr_evolution,
                   backend_conservative, pool_records, simulated_curve,
                   deploy_conservative, deploy_records, all_curves,
                   evolution_pc>>
    /\ UNCHANGED otherThanRetention

\* calculate_ndr_evolution(): returns at once with fewer than 13 months,
\* and keeps the ending columns without an NDR in ndr_evolution.
CalculateNdrEvolution ==
    /\ evolution_pc = "ready"
    /\ IF Len(cohorts_data[1]) < NdrMonths + 1
       THEN evolution_pc' = "short" /\ UNCHANGED ndr_evolution
       ELSE /\ ndr_evolution' = NdrLoop(cohorts_data)
            /\ evolution_pc' =
                   IF NdrRaises(ndr_evolution') THEN "raise" ELSE "done"
    /\ UNCHANGED <<cohorts_data, retention_table, num_cols, ndr_terms,
                   min_ndr_12th_root, backend_conservative, pool_records,
                   simulated_curve, deploy_conservative, deploy_records,
                   all_curves, rpc, curve_pc, deploy_pc>>
    /\ UNCHANGED otherThanRetention

\* simulate_retention_curve(conservative): the loop over the 60 columns.
SimulateRetentionCurve ==
    /\ curve_pc = "ready"
    /\ \E mode \in BOOLEAN, plan \in {ChoicePlans[k] : k \in 1..Len(ChoicePlans)} :
        /\ backend_conservative' = mode
        /\ pool_records' = Pools(retention_table)
        /\ simulated_curve' =
               SimulatedCurve(pool_records', mode, min_ndr_12th_root, plan)
    /\ curve_pc' = "done"
    /\ UNCHANGED <<cohorts_data, retention_table, num_cols, ndr_terms,
                   min_ndr_12th_root, ndr_evolution, deploy_conservative,
                   deploy_records, all_curves, rpc, deploy_pc, evolution_pc>>
    /\ UNCHANGED otherThanRetention

\* simulate_1000_retention_curves(conservative): the same loop over the 60
\* columns in every simulation; the simulations of the model are one for
\* each plan of choices.
Simulate1000RetentionCurves ==
    /\ deploy_pc = "ready"
    /\ \E mode \in BOOLEAN :
        /\ deploy_conservative' = mode
        /\ deploy_records' = Pools(retention_table)
        /\ all_curves' =
               [sim \in 1..Len(ChoicePlans) |->
                   SimulatedCurve(deploy_records', mode, min_ndr_12th_root,
                                  ChoicePlans[sim])]
    /\ deploy_pc' = "done"
    /\ UNCHANGED <<cohorts_data, retention_table, num_cols, ndr_terms,
                   min_ndr_12th_root, ndr_evolution, backend_conservative,
                   pool_records, simulated_curve, rpc, curve_pc,
                   evolution_pc>>
    /\ UNCHANGED otherThanRetention

NextRetention ==
    \/ GetRetentionTable
    \/ GetMinNdr12thRoot
    \/ CalculateNdrEvolution
    \/ SimulateRetentionCurve
    \/ Simulate1000RetentionCurves

(***************************************************************************)
(* CohortCashFlowProjector: the body of the row loops of                   *)
(* build_revenue_table and build_gross_profit_table, for one row           *)
(* (simulations[i], all_retention_curves[i]); every row of the tables is   *)
(* built from its own pair alone.                                          *)
(*                                                                         *)
(* Units: sm_value is whole currency units, predicted_ratio thousandths,   *)
(* a retention value and the gross margin millionths; revenue, gross       *)
(* profit and the cash flow are cents, LTV to CAC thousandths.             *)
(***************************************************************************)
ProjectionMonths == 60
CentsPerUnit == 100

ProjectorSpends == {0, 1000}
ProjectorRatios == {-10000, 0, 500, 2000}
GrossMargins == {0, 700000}

\* A retention curve of 60 entries: its first entry, one level for the
\* others, and a hole (None) at one index (counted from 0) or at none.
CurveFirsts == {None, 500000, 1200000}
CurveLevels == {900000, 1050000}
CurveHoles == {-1, 1, 5, 59}
CurveOf(first, level, hole) ==
    [k \in 1..ProjectionMonths |->
        IF k - 1 = hole THEN None
        ELSE IF k = 1 THEN first
        ELSE level]

\* sm_value / predicted_ratio if predicted_ratio != 0 else None
SmRatio(spend, ratio) ==
    IF ratio # 0 THEN Quotient(spend, ratio, 5) ELSE None

CurveEntryBefore(curve, month) == curve[month]

\* retention_curve[month]
CurveEntry(curve, month) == curve[month + 1]

NextRevenueNoneIsZero(prev_revenue, retention_value) ==
    IF retention_value # None
    THEN MulR(IF prev_revenue = None THEN 0 ELSE prev_revenue,
              retention_value)
    ELSE None

\* revenue of a month of the loop, from prev_revenue and retention_value.
NextRevenue(prev_revenue, retention_value) ==
    IF prev_revenue # None /\ retention_value # None
    THEN MulR(prev_revenue, retention_value)
    ELSE None

\* revenue_columns after the months from month on, columns being the list
\* so far (its last entry is prev_revenue).
RECURSIVE RevenueLoop(_, _, _)
RevenueLoop(curve, columns, month) ==
    IF month >= ProjectionMonths THEN columns
    ELSE RevenueLoop(curve,
                     Append(columns,
                            NextRevenue(columns[Len(columns)],
                                        CurveEntry(curve, month))),
                     month + 1)

\* revenue_columns of a row.
RevenueColumns(spend, ratio, curve) ==
    RevenueLoop(curve, <<SmRatio(spend, ratio)>>, 1)

\* revenue * gross_margin if revenue is not None else None
GrossProfit(revenue, margin) ==
    IF revenue # None THEN MulR(revenue, margin) ELSE None

\* gross_profit_columns of a row.
GrossProfitColumns(spend, ratio, curve, margin) ==
    LET Of[revenues \in Seq(Int)] ==
            [n \in 1..Len(revenues) |-> GrossProfit(revenues[n], margin)]
    IN  Of[RevenueColumns(spend, ratio, curve)]

\* sum of the entries that are not None / sm_value, or None.
LtvToCac(columns, spend) ==
    IF spend # 0
    THEN Quotient(SumSeq([n \in 1..Len(columns) |->
                             IF columns[n] # None THEN columns[n] ELSE 0]),
                  spend * CentsPerUnit, 3)
    ELSE None

\* [-sm_value] + [gp if gp is not None else 0 for gp in gross_profit_columns]
CashFlow(spend, columns) ==
    <<-(spend * CentsPerUnit)>>
    \o [n \in 1..Len(columns) |-> IF columns[n] # None THEN columns[n] ELSE 0]

\* row_irr: irr of the cash flow when its first entry is negative and the
\* result is finite, else None.
RowIrr(flow) ==
    IF Len(flow) > 1 /\ flow[1] < 0 /\ Irr(flow) # NaN
    THEN Irr(flow)
    ELSE None

ProjectorIdle ==
    /\ mc_data = [sm_value |-> 0, predicted_ratio |-> 0]
    /\ retention_curve = <<>>
    /\ gross_margin = 0
    /\ revenue_columns = <<>>
    /\ revenue_ltv_cac = None
    /\ gross_profit_columns = <<>>
    /\ ltv_cac = None
    /\ row_cash_flow = <<>>
    /\ row_irr = None
    /\ revenue_pc = "idle"
    /\ profit_pc = "idle"

InitProjector ==
    \E spend \in ProjectorSpends, ratio \in ProjectorRatios,
       margin \in GrossMargins, first \in CurveFirsts, level \in CurveLevels,
       hole \in CurveHoles :
        /\ mc_data = [sm_value |-> spend, predicted_ratio |-> ratio]
        /\ retention_curve = CurveOf(first, level, hole)
        /\ gross_margin = margin
        /\ revenue_columns = <<>>
        /\ revenue_ltv_cac = None
        /\ gross_profit_columns = <<>>
        /\ ltv_cac = None
        /\ row_cash_flow = <<>>
        /\ row_irr = None
        /\ revenue_pc = "ready"
        /\ profit_pc = "ready"

\* build_revenue_table: one row.
BuildRevenueRow ==
    /\ revenue_pc = "ready"
    /\ revenue_columns' =
           RevenueColumns(mc_data.sm_value, mc_data.predicted_ratio,
                          retention_curve)
    /\ revenue_ltv_cac' = LtvToCac(revenue_columns', mc_data.sm_value)
    /\ revenue_pc' = "done"
    /\ UNCHANGED <<mc_data, retention_curve, gross_margin,
                   gross_profit_columns, ltv_cac, row_cash_flow, row_irr,
                   profit_pc>>
    /\ UNCHANGED otherThanProjector

\* build_gross_profit_table: one row.
BuildGrossProfitRow ==
    /\ profit_pc = "ready"
    /\ gross_profit_columns' =
           GrossProfitColumns(mc_data.sm_value, mc_data.predicted_ratio,
                              retention_curve, gross_margin)
    /\ ltv_cac' = LtvToCac(gross_profit_columns', mc_data.sm_value)
    /\ row_cash_flow' = CashFlow(mc_data.sm_value, gross_profit_columns')
    /\ row_irr' = RowIrr(row_cash_flow')
    /\ profit_pc' = "done"
    /\ UNCHANGED <<mc_data, retention_curve, gross_margin, revenue_columns,
                   revenue_ltv_cac, revenue_pc>>
    /\ UNCHANGED otherThanProjector

NextProjector == BuildRevenueRow \/ BuildGrossProfitRow

(***************************************************************************)
(* Specifications: each engine is a library function, run on its own.      *)
(***************************************************************************)
Init ==
    InitLoan /\ FundIdle /\ SamplerIdle /\ RetentionIdle /\ ProjectorIdle

Next == NextLoan

Spec == Init /\ [][Next]_vars

InitFundOnly ==
    LoanIdle /\ InitFund /\ SamplerIdle /\ RetentionIdle /\ ProjectorIdle

InitSamplerOnly ==
    LoanIdle /\ FundIdle /\ InitSampler /\ RetentionIdle /\ ProjectorIdle

SpecSampler == InitSamplerOnly /\ [][NextSampler]_vars

InitRetentionOnly ==
    LoanIdle /\ FundIdle /\ SamplerIdle /\ InitRetention /\ ProjectorIdle

InitProjectorOnly ==
    LoanIdle /\ FundIdle /\ SamplerIdle /\ RetentionIdle /\ InitProjector

SpecProjector == InitProjectorOnly /\ [][NextProjector]_vars

\* run_monte_carlo_predicted_ratio calls run_single_prediction_ratio again
\* and again with the same history and algorithm: the next call, with the
\* draws of its own.
DrawAgain ==
    /\ run_pc \in {"done", "raise"}
    /\ \E plan \in DrawPlans : draws' = plan
    /\ run_pc' = "ready"
    /\ UNCHANGED <<sm_dict, revenue_dict, conservative, algorithm_data,
                   simulation_data, predictions, spc, predict_pc>>
    /\ UNCHANGED otherThanSampler

\* The ratio samplers and the retention samplers of one report, over the
\* history of the example (and a one-month history) and a cohort file.
DrawHistories == {<<ExampleSpend, ExampleRevenue>>, <<<<100>>, <<10>>>>}
DrawShapes == {<<3, 14>>}

InitDraws ==
    /\ LoanIdle
    /\ FundIdle
    /\ ProjectorIdle
    /\ \E series \in DrawHistories, mode \in BOOLEAN, plan \in DrawPlans :
           /\ sm_dict = series[1]
           /\ revenue_dict = series[2]
           /\ conservative = mode
           /\ algorithm_data = NoAlgorithm
           /\ draws = plan
           /\ simulation_data = <<>>
           /\ predictions = <<>>
           /\ spc = "start"
           /\ run_pc = "idle"
           /\ predict_pc = "idle"
    /\ \E shape \in DrawShapes :
           /\ cohorts_data =
                  CohortsData(shape, [k \in 1..MaxMarked |-> 0], "odd")
           /\ retention_table = <<>>
           /\ num_cols = 0
           /\ ndr_terms = <<>>
           /\ min_ndr_12th_root = None
           /\ ndr_evolution = <<>>
           /\ backend_conservative = FALSE
           /\ pool_records = <<>>
           /\ simulated_curve = <<>>
           /\ deploy_conservative = FALSE
           /\ deploy_records = <<>>
           /\ all_curves = <<>>
           /\ rpc = "start"
           /\ curve_pc = "idle"
           /\ deploy_pc = "idle"
           /\ evolution_pc = "ready"

NextDraws == NextSampler \/ DrawAgain \/ NextRetention

SpecDraws == InitDraws /\ [][NextDraws]_vars

SpecRetention == InitRetentionOnly /\ [][NextRetention]_vars

SpecFund == InitFundOnly /\ [][NextFund]_vars

(***************************************************************************)
(* The regression of test_irr_verification: [-1000] + [100] * 12 at 80%    *)
(* and four yearly rates (and, beside it, the same with 50 a month).       *)
(***************************************************************************)
RegressionMonths == 12
RegressionFlow == 10000
RegressionRates == {120000, 160000, 200000, 250000}
RegressionFlows == {RegressionFlow, 5000}
IrrTolerance == 1000

RegressionCashflows(flow) == <<-100000>> \o [k \in 1..RegressionMonths |-> flow]

InitRegression ==
    \E flow \in RegressionFlows, rate \in RegressionRates :
        /\ LoanCall(RegressionCashflows(flow), 800000, rate)
        /\ FundIdle
        /\ SamplerIdle
        /\ RetentionIdle
        /\ ProjectorIdle

SpecRegression == InitRegression /\ [][NextLoan]_vars

(***************************************************************************)
(* Claims about the LoanAmortizer.                                         *)
(***************************************************************************)
Months == 1..Len(history)

\* The underlying cash flow of month k, and the outstanding principal
\* before and after the loop iteration that processed it.
FlowOf(k) == original_cashflows[k + 1]
OutstandingBefore(k) ==
    IF k = 1 THEN Abs(loan_amount) ELSE history[k - 1].after
OutstandingAfter(k) ==
    IF k = Len(history) THEN outstanding_principal ELSE history[k + 1].before

PrincipalPaid == SumSeq([k \in Months |-> history[k].principal])

C2_NonIncreasing ==
    \A k \in Months :
        FlowOf(k) > 0 => OutstandingAfter(k) <= OutstandingBefore(k)

\* C3 (as claimed): in a month with flow > 0 the principal payment is
\* min(flow*loanPercentage - outstanding*monthlyRate, outstanding) clamped
\* below at 0, the payment is interest + principal and the outstanding
\* principal decreases by exactly the principal payment.
C3_ClampedPrincipal ==
    \A k \in Months :
        FlowOf(k) > 0 =>
            LET interest == MulR(OutstandingBefore(k), monthly_interest_rate)
                available == MulR(FlowOf(k), loan_percentage) - interest
                clamped == IF Min(available, OutstandingBefore(k)) < 0
                           THEN 0
                           ELSE Min(available, OutstandingBefore(k))
            IN  /\ history[k].principal = clamped
                /\ history[k].principal >= 0
                /\ lender_cashflows[k + 1] = interest + history[k].principal
                /\ OutstandingAfter(k) =
                       OutstandingBefore(k) - history[k].principal

\* C4: after any prefix of months the outstanding principal is the loan
\* amount |cashflow[0]| * loanPercentage less the principal payments made
\* so far; the final outstanding principal is 0 exactly when the principal
\* payments add up to the loan amount.
C4_PrincipalAccounting ==
    pc \in {"loop", "done"} =>
        /\ outstanding_principal =
               MulR(Abs(original_cashflows[1]), loan_percentage)
               - PrincipalPaid
        /\ pc = "done" =>
               /\ loan_info.loan_amount =
                      MulR(Abs(original_cashflows[1]), loan_percentage)
               /\ (loan_info.final_outstanding_principal = 0
                       <=> PrincipalPaid = loan_info.loan_amount)

\* C4 witness: a finished run of several months that repaid the loan in
\* full, the last payment limited by the outstanding principal.
C4_Witness ==
    /\ pc = "done"
    /\ Len(history) >= 2
    /\ loan_info.final_outstanding_principal = 0
    /\ PrincipalPaid = loan_info.loan_amount
    /\ loan_info.loan_amount > 0
    /\ \E k \in Months : history[k].principal > 0
                         /\ history[k].principal < loan_info.loan_amount

\* C5: for [-1000] + [100] * 12, loanPercentage 0.80 and each yearly rate
\* of the regression, the annualized IRR of the lender cash flows is
\* within 0.001 of the yearly rate; the loan is repaid in full and every
\* payment is the interest at the monthly rate plus principal.
C5_RegressionIrr ==
    (/\ pc = "done"
     /\ original_cashflows = RegressionCashflows(RegressionFlow)
     /\ loan_percentage = 800000
     /\ yearly_interest_rate \in RegressionRates) =>
        /\ IrrDefined(lender_cashflows)
        /\ Abs(Annualize(Irr(lender_cashflows)) - yearly_interest_rate)
               < IrrTolerance
        /\ loan_info.final_outstanding_principal = 0
        /\ \A k \in Months :
               lender_cashflows[k + 1] =
                   MulR(OutstandingBefore(k), monthly_interest_rate)
                   + history[k].principal

\* C5 witness: the regression run at 16% has finished, repaid.
C5_Witness ==
    /\ pc = "done"
    /\ original_cashflows = RegressionCashflows(RegressionFlow)
    /\ loan_percentage = 800000
    /\ yearly_interest_rate = 160000
    /\ Len(lender_cashflows) = RegressionMonths + 1
    /\ outstanding_principal = 0

(***************************************************************************)
(* Claims about the ReturnCapEngine.                                       *)
(***************************************************************************)
\* The scan of the current call is over and its result is in the locals.
ScanDone == fpc \in {"capped", "done"}

\* The flow the scan tests in month m: the loan and the first m returns.
FundPrefix(m) == <<-fund_loan_amount>> \o SubSeq(monthly_returns, 1, m)

FundMonths == 1..Len(monthly_returns)

\* The months whose prefix has an IRR whose annualization
\* (1 + irr) ** 12 - 1 is >= target_irr, that is a monthly IRR
\* >= (1 + target_irr) ** (1/12) - 1.
AnnualTargetMonths ==
    {m \in FundMonths : IrrAtLeast(FundPrefix(m), MonthlyRate(target_irr))}

\* The months whose prefix has an IRR, as irr returns it, >= target_irr.
TargetMonths == {m \in FundMonths : IrrAtLeast(FundPrefix(m), target_irr)}

\* The smallest of a set of months, None of the empty set.
FirstOf(months) ==
    IF months = {} THEN None
    ELSE CHOOSE m \in months : \A n \in months : m <= n

\* The returns with every month after m set to 0 (all of them for None).
CappedAfter(m) ==
    [k \in FundMonths |->
        IF m # None /\ k > m THEN 0 ELSE monthly_returns[k]]

\* C6 (as claimed): months_to_target is the smallest m whose prefix
\* [-loan] ++ returns[1..m] has an annualized IRR >= target_irr, and the
\* capped series is the returns up to m followed by zeros.
C6_AnnualizedTarget ==
    ScanDone =>
        LET Holds[months \in SUBSET FundMonths] ==
                /\ months_to_target = FirstOf(months)
                /\ final_monthly_returns = CappedAfter(FirstOf(months))
        IN  Holds[AnnualTargetMonths]

\* C7: the cap applied to the capped series, with the same loan, target
\* and horizon, gives the same series and the same months_to_target: no
\* further month is set to 0.
C7_Idempotent ==
    ScanDone =>
        LET Same[again \in [months_to_target : Int, return_reached : BOOLEAN,
                            raised : BOOLEAN,
                            final_monthly_returns : Seq(Int)]] ==
                /\ again.final_monthly_returns = final_monthly_returns
                /\ again.months_to_target = months_to_target
                /\ again.return_reached = return_reached
        IN  Same[ApplyCap(fund_loan_amount, final_monthly_returns,
                          target_irr, irr_failure)]

\* C7 witness: the scan reached the target and set a later positive return
\* to 0.
C7_Witness ==
    /\ ScanDone
    /\ return_reached
    /\ \E k \in FundMonths :
           /\ k > months_to_target
           /\ monthly_returns[k] > 0
           /\ final_monthly_returns[k] = 0

\* What C8 says of a call in which no prefix reaches the target, but for
\* the horizon flag.
NothingCapped ==
    /\ final_monthly_returns = monthly_returns
    /\ months_to_target = None
    /\ ~return_reached

\* C8 (amended): if no prefix reaches the target IRR, no return is set to
\* 0, months_to_target is unset and return_reached is false; the horizon
\* flag months_to_max_years is set, to max_years * 12, when
\* max_years * 12 <= 60, and stays unset for a larger max_years.
C8_NoCapHorizon ==
    (ScanDone /\ TargetMonths = {}) =>
        /\ NothingCapped
        /\ months_to_max_years =
               IF max_years * MonthsPerYear <= MonthsCap
               THEN max_years * MonthsPerYear
               ELSE None

\* C8 witness: a call with positive returns and a max_years other than the
\* default in which no prefix reaches the target, the flag set.
C8_Witness ==
    /\ ScanDone
    /\ TargetMonths = {}
    /\ max_years # DefaultMaxYears
    /\ months_to_max_years = max_years * MonthsPerYear
    /\ \E k \in FundMonths : monthly_returns[k] > 0

\* C8 (as claimed): if no prefix reaches the target IRR, nothing is capped
\* and the horizon flag is set, for every max_years.
C8_FlagForEveryMaxYears ==
    (ScanDone /\ TargetMonths = {}) =>
        /\ NothingCapped
        /\ months_to_max_years # None

\* C9: the scan does not raise; a prefix whose IRR is undefined or whose
\* irr call fails counts as not having reached the target, and the first
\* prefix with an IRR >= target_irr caps the returns, whatever the
\* prefixes before it.
C9_ScanContinues ==
    /\ fpc # "raise_scan"
    /\ ScanDone =>
           LET Caps[months \in SUBSET FundMonths] ==
                   /\ return_reached <=> months # {}
                   /\ months_to_target = FirstOf(months)
           IN  Caps[TargetMonths]

\* C9 witness: irr raises on a flow without a rate, the first prefix is
\* such a flow, and a later prefix reached the target.
C9_Witness ==
    /\ ScanDone
    /\ irr_failure = "raise"
    /\ ~IrrDefined(FundPrefix(1))
    /\ return_reached
    /\ months_to_target > 1

\* C10 (as claimed): a result whose capped flow has no IRR reports the IRR
\* as undefined, not as a number, and the IRR statistics leave that result
\* out.
C10_UndefinedExcluded ==
    /\ \A k \in 1..Len(fund_results) :
           ~fund_results[k].irr_defined =>
               fund_results[k].actual_irr \in {NaN, None}
    /\ fpc = "reported" =>
           Len(irr_stats.irr_values) =
               Cardinality({k \in 1..Len(fund_results) :
                               fund_results[k].irr_defined})

(***************************************************************************)
(* The two engines on one cohort: calculate_lender_cashflows on the vector *)
(* [-sm_value] + gross profits with its default terms (80%, 16%), and      *)
(* calculate_fund_returns_for_cohort on the same S&M value and gross       *)
(* profits with its default terms.                                         *)
(***************************************************************************)
PipelineProfits == {0, 56250, 62500, 150000}

\* calculate_fund_returns_for_cohort has been called (the state Call
\* leaves).
FundCalled(c, sm, series, target, years, failure) ==
    /\ caller = c
    /\ sm_value = sm
    /\ gross_profit_series = series
    /\ target_irr = target
    /\ max_years = years
    /\ irr_failure = failure
    /\ fund_loan_amount = 0
    /\ monthly_returns = <<>>
    /\ cumulative_return = 0
    /\ months_to_target = None
    /\ months_to_max_years = None
    /\ return_reached = FALSE
    /\ final_monthly_returns = <<>>
    /\ final_cumulative_return = 0
    /\ actual_irr = 0
    /\ fpc = "start"
    /\ fund_results = <<>>
    /\ irr_stats = NoStats

InitPipeline ==
    \E sm \in SmValues, a \in PipelineProfits, b \in PipelineProfits,
       tail \in TailProfits :
        /\ LoanCall(<<-sm>> \o SeriesOf(a, b, tail), FundShare,
                    DefaultTargetIrr)
        /\ FundCalled("direct", sm, SeriesOf(a, b, tail), DefaultTargetIrr,
                      DefaultMaxYears, "nan")
        /\ SamplerIdle
        /\ RetentionIdle
        /\ ProjectorIdle

NextPipeline == Begin \/ AmortizeMonth \/ Finish \/ BuildReturns

SpecPipeline == InitPipeline /\ [][NextPipeline]_vars

(***************************************************************************)
(* Claims about the composition of the engines.                            *)
(***************************************************************************)
\* C11 (as claimed): the payments the ReturnCapEngine scans are the
\* LoanAmortizer's lender payments for the same cash-flow vector and the
\* same terms, month by month.
C11_SamePayments ==
    (pc = "done" /\ fpc = "scan") =>
        /\ Len(lender_cashflows) = Len(monthly_returns) + 1
        /\ \A k \in 1..Len(monthly_returns) :
               lender_cashflows[k + 1] = monthly_returns[k]

(***************************************************************************)
(* Claims about the HistoricalRatioModel and the RatioSampler.             *)
(***************************************************************************)
RunSingleEnded == run_pc \in {"done", "raise"}
PredictEnded == predict_pc \in {"done", "raise"}

\* C12 (as claimed): a draw never raises a division by zero: in both modes
\* and for every pool and reference CAC both samplers return, with a ratio
\* for each of the 12 forecast months.
C12_NeverDividesByZero ==
    /\ run_pc # "raise"
    /\ predict_pc # "raise"
    /\ run_pc = "done" => Len(simulation_data) = ForecastMonths
    /\ (predict_pc = "done" /\ SmMonths(sm_dict) # {}) =>
           Len(predictions) = ForecastMonths

\* The rule of C13 for one forecast month, lastKnownSpend given: heads
\* gives the spend; otherwise r is the pool element drawn, or the reference
\* CAC of an empty pool, blended exactly when the mode is conservative,
\* r < referenceCAC and the spend is above lastKnownSpend.
RegimeRule(last_known_spend, alg, draw, month) ==
    IF draw.u < alg.heads_percentage
    THEN SpendOf(last_known_spend, month) * RatioUnit
    ELSE LET r == IF alg.distribution = <<>> THEN alg.cac_12m
                  ELSE Choice(alg.distribution, draw)
         IN  IF /\ alg.conservative
                /\ r < alg.cac_12m
                /\ SpendOf(last_known_spend, month) > last_known_spend
             THEN Blend(SpendOf(last_known_spend, month), last_known_spend,
                        r, alg.cac_12m)
             ELSE r

\* C13 (as claimed): every month's ratio follows the regime rule, in
\* run_single_prediction_ratio and in predict_next_12_months, and the two
\* return the same ratio for the same draws and inputs.
C13_RegimeRule ==
    (/\ RunSingleEnded
     /\ PredictEnded
     /\ SmMonths(sm_dict) # {}
     /\ RunSingleLastSm(sm_dict, revenue_dict) = PredictLastSm(sm_dict)) =>
        /\ run_pc = "done"
        /\ predict_pc = "done"
        /\ \A m \in 1..ForecastMonths :
               /\ simulation_data[m].predicted_ratio =
                      RegimeRule(PredictLastSm(sm_dict), algorithm_data,
                                 draws[m], m)
               /\ predictions[m].predicted_ratio =
                      simulation_data[m].predicted_ratio

\* spend / revenue > 10000, and = 10000, for a revenue > 0, in exact
\* integer arithmetic.
RatioExceeds(spend, revenue) ==
    \/ spend \div revenue > 10000
    \/ spend \div revenue = 10000 /\ spend % revenue > 0
RatioIsThreshold(spend, revenue) ==
    spend \div revenue = 10000 /\ spend % revenue = 0

\* C14: for a history in which every month has revenue > 0,
\* heads_percentage_overall is exactly the number of months whose
\* spend/revenue ratio is > 10000 over the number of months.
C14_HeadsFraction ==
    (/\ spc = "built"
     /\ \A m \in 1..Len(revenue_dict) : revenue_dict[m] > 0) =>
        algorithm_data.heads_percentage_overall =
            (Cardinality({m \in 1..Len(revenue_dict) :
                             RatioExceeds(GetOrZero(sm_dict, m),
                                          revenue_dict[m])})
             * R) \div Len(revenue_dict)

\* C14 witness: an algorithm built from two months with revenue, one with
\* a ratio of exactly 10000 and one with a larger ratio: half the months
\* are heads.
C14_Witness ==
    /\ spc = "built"
    /\ Len(revenue_dict) = 2
    /\ \A m \in 1..2 : revenue_dict[m] > 0 /\ sm_dict[m] # None
    /\ \E m \in 1..2 : RatioIsThreshold(sm_dict[m], revenue_dict[m])
    /\ \E m \in 1..2 : RatioExceeds(sm_dict[m], revenue_dict[m])
    /\ algorithm_data.heads_percentage_overall = 500000

\* The spend of the chronologically last month of the history (0 without a
\* record).
LastKnownSpend == GetOrZero(sm_dict, Len(revenue_dict))

\* What C15 says of the rows one sampler returns.
SpendTrajectory(rows) ==
    /\ Len(rows) = ForecastMonths
    /\ \A m \in 1..ForecastMonths :
           rows[m].sm_value = SpendOf(LastKnownSpend, m)
    /\ LastKnownSpend > 0 =>
           /\ \A m \in 1..ForecastMonths : rows[m].sm_value > 0
           /\ \A m \in 1..(ForecastMonths - 1) :
                  rows[m].sm_value < rows[m + 1].sm_value

\* C15 (as claimed): a draw returns 12 months with
\* spend_i = lastKnownSpend * 1.1^i, lastKnownSpend the spend of the
\* chronologically last historical month; the spends are positive and
\* strictly increasing when that spend is positive.
C15_SpendTrajectory ==
    /\ run_pc = "done" => SpendTrajectory(simulation_data)
    /\ predict_pc = "done" => SpendTrajectory(predictions)

(***************************************************************************)
(* Claims about the RetentionTable, the NDRFloorCalculator and the         *)
(* RetentionCurveSampler.                                                  *)
(***************************************************************************)
TableBuilt == rpc \in {"table", "floor", "raise"}

\* The cell the claim describes for two consecutive months of revenue.
CellAsClaimed(left, curr) ==
    IF left \notin {None, 0} /\ curr \notin {None, 0}
    THEN Quotient(curr, left, 6)
    ELSE None

\* C16 (as claimed): every cell j >= 1 of every row of the table is
\* revenue[j] / revenue[j-1] when both are present and non-zero, and null
\* when either of them is zero or absent.
C16_CellRule ==
    TableBuilt =>
        \A k \in 1..Len(retention_table) :
            \A j \in 1..Len(retention_table[k]) :
                retention_table[k][j] =
                    CellAsClaimed(cohorts_data[k][j], cohorts_data[k][j + 1])

\* C17: for N cohorts the table has N - 1 rows; rows 0 and 1 have
\* totalColumns = len(revenue) - 1 cells, a row i >= 2 has at most
\* max(totalColumns - (i - 1), 0) cells, and the cells a row keeps are its
\* leading cells, unchanged.
C17_TriangularCap ==
    TableBuilt =>
        /\ Len(retention_table) = Len(cohorts_data) - 1
        /\ \A k \in 1..Len(retention_table) :
               /\ k <= 2 => Len(retention_table[k]) = Len(cohorts_data[k]) - 1
               /\ k >= 3 =>
                      Len(retention_table[k])
                          <= Larger(Len(cohorts_data[1]) - 1 - (k - 2), 0)
               /\ \A j \in 1..Len(retention_table[k]) :
                      retention_table[k][j] =
                          Cell(cohorts_data[k][j], cohorts_data[k][j + 1])

\* C17 witness: a table built from 15 cohorts in which a row i >= 2 keeps
\* some of its cells but not all, and a later row keeps none.
C17_Witness ==
    /\ TableBuilt
    /\ Len(cohorts_data) = 15
    /\ Len(retention_table) = 14
    /\ \E k \in 3..Len(retention_table) :
           /\ Len(retention_table[k]) > 0
           /\ Len(retention_table[k]) < num_cols
    /\ \E k \in 3..Len(retention_table) :
           Len(retention_table[k]) = 0 /\ num_cols > 0

\* The column the claim gives row r for the ending column e.
ClaimedCol(r, e) == IF r <= 1 THEN e ELSE e - (r - 1)

\* The rows the claim adds for the ending column e.
ClaimedRows(data, e) ==
    {r \in 0..(Len(data) - 1) : ClaimedCol(r, e) >= NdrMonths}

\* The sum over the claimed rows of the revenue back columns before the
\* claimed column.
ClaimedSum(data, e, back) ==
    SumSeq([k \in 1..Len(data) |->
               IF k - 1 \in ClaimedRows(data, e)
               THEN data[k][ClaimedCol(k - 1, e) - back + 1]
               ELSE 0])

\* The terms of an NDR loop are the ones the claim describes.
TermsAsClaimed(data, terms) ==
    /\ Len(terms) = Larger(Len(data[1]) - NdrMonths, 0)
    /\ \A k \in 1..Len(terms) :
           LET e == terms[k].end_col
           IN  /\ e = Len(data[1]) - k
               /\ e >= NdrMonths
               /\ {terms[k].cells[c] : c \in 1..Len(terms[k].cells)}
                      = {<<r, ClaimedCol(r, e)>> : r \in ClaimedRows(data, e)}
               /\ Len(terms[k].cells) = Cardinality(ClaimedRows(data, e))
               /\ \A r \in ClaimedRows(data, e) :
                      ClaimedCol(r, e) - NdrMonths >= 0
               /\ terms[k].numerator = ClaimedSum(data, e, 0)
               /\ terms[k].denominator = ClaimedSum(data, e, NdrMonths)
               /\ terms[k].denominator <= 0 =>
                      terms[k].ndr \in {None, TypeError}

\* C18: in get_min_ndr_12th_root and in calculate_ndr_evolution, the
\* ending columns run from the last column down to 12; the numerator of e
\* sums the revenue at (0,e), (1,e) and (r, e-(r-1)) for every row r >= 2
\* with e-(r-1) >= 12, the denominator the same rows 12 columns earlier
\* (never a negative column); an e whose denominator is <= 0 gives no NDR,
\* and the floor is 1.0 when no e gives one.
C18_NdrDiagonal ==
    /\ rpc \in {"floor", "raise"} => TermsAsClaimed(cohorts_data, ndr_terms)
    /\ rpc = "floor" /\ NdrValues(ndr_terms) = {} => min_ndr_12th_root = R
    /\ evolution_pc \in {"done", "raise"} =>
           TermsAsClaimed(cohorts_data, ndr_evolution)

\* C18 witness: both loops ran over 15 cohorts of 14 months: the walk of
\* an ending column stops at column 12 with rows left, one ending column
\* has a denominator of 0 and no NDR, and another one has an NDR.
C18_Witness ==
    /\ rpc = "floor"
    /\ evolution_pc = "done"
    /\ Len(cohorts_data) = 15
    /\ \E k \in 1..Len(ndr_terms) :
           /\ Len(ndr_terms[k].cells) = 3
           /\ ndr_terms[k].cells[3] = <<2, NdrMonths>>
    /\ \E k \in 1..Len(ndr_terms) :
           ndr_terms[k].denominator = 0 /\ ndr_terms[k].ndr = None
    /\ \E k \in 1..Len(ndr_terms) : ndr_terms[k].ndr > 0

\* C18 witness of the default: no ending column of the loop gives an NDR
\* (there are ending columns, and every denominator is 0) and the floor
\* is 1.0.
C18_WitnessDefault ==
    /\ rpc = "floor"
    /\ Len(ndr_terms) > 0
    /\ NdrValues(ndr_terms) = {}
    /\ min_ndr_12th_root = R

\* The rows other than the first that hold an observed value in a column.
Observed(table, col) ==
    {k \in 2..Len(table) : col < Len(table[k]) /\ table[k][col + 1] # None}

\* Some column of 0..59 holds an observed value in a row other than the
\* first.
SomethingObserved(table) ==
    \E col \in 0..(CurveMonths - 1) : Observed(table, col) # {}

\* C19: when some column of 0..59 holds an observed value in a row other
\* than the first, the pool of every column c of 0..59 is non-empty and
\* the value sampled for c is not null, in simulate_retention_curve and in
\* simulate_1000_retention_curves.
C19_PoolNeverEmpty ==
    SomethingObserved(retention_table) =>
        /\ curve_pc = "done" =>
               \A c \in 1..CurveMonths :
                   /\ pool_records[c].all_values # <<>>
                   /\ simulated_curve[c] # None
        /\ deploy_pc = "done" =>
               \A c \in 1..CurveMonths :
                   /\ deploy_records[c].all_values # <<>>
                   /\ \A sim \in 1..Len(all_curves) : all_curves[sim][c] # None

\* C19 witness: both samplers ran on a table whose columns from 13 on are
\* empty, so that the pool of column 59 comes from columns more than 40
\* columns away.
C19_Witness ==
    /\ curve_pc = "done"
    /\ deploy_pc = "done"
    /\ SomethingObserved(retention_table)
    /\ \A col \in 13..(CurveMonths - 1) : Observed(retention_table, col) = {}
    /\ pool_records[CurveMonths].left_cols # <<>>
    /\ pool_records[CurveMonths].right_cols = <<>>
    /\ simulated_curve[CurveMonths] # None

\* The quota of the claim for a column with n observed values.
TierQuota(n) ==
    IF n >= 12 THEN 1 ELSE IF n >= 5 THEN 2 ELSE IF n >= 2 THEN 3 ELSE 5

\* cols lists, nearest first, the quota nearest columns to col among the
\* candidates (all of them if fewer exist).
NearestOf(candidates, col, cols, quota) ==
    LET chosen == {cols[k] : k \in 1..Len(cols)}
    IN  /\ Len(cols) = Min(quota, Cardinality(candidates))
        /\ Cardinality(chosen) = Len(cols)
        /\ chosen \subseteq candidates
        /\ \A c \in chosen, d \in candidates \ chosen :
               Abs(col - c) < Abs(col - d)
        /\ \A k \in 1..(Len(cols) - 1) :
               Abs(col - cols[k]) < Abs(col - cols[k + 1])

\* The columns the records select are the ones of the one-function rule.
WidenedAsClaimed(table, records) ==
    LET Rule[counts \in Seq(Nat)] ==
            \A col \in 0..(CurveMonths - 1) :
                /\ NearestOf({c \in 0..(col - 1) : counts[c + 1] > 0}, col,
                             records[col + 1].left_cols,
                             TierQuota(counts[col + 1]))
                /\ NearestOf({c \in (col + 1)..(CurveMonths - 1) :
                                 counts[c + 1] > 0}, col,
                             records[col + 1].right_cols,
                             TierQuota(counts[col + 1]))
    IN  Rule[[c \in 1..CurveMonths |->
                 Cardinality(Observed(table, c - 1))]]

PoolColumns(col, record) == <<col>> \o record.left_cols \o record.right_cols

\* The cells <<row, index of the column in cols>> of the rows other than
\* the first that hold the observed value v.
CellsHolding(table, cols, v) ==
    {cell \in (2..Len(table)) \X (1..Len(cols)) :
        /\ cols[cell[2]] < Len(table[cell[1]])
        /\ table[cell[1]][cols[cell[2]] + 1] = v}

\* The pools of the records are multisets of the observed values of their
\* columns, first row excluded.
PoolsAsClaimed(table, records) ==
    \A c \in 1..CurveMonths :
        LET Holds[pool \in Seq(Int)] ==
                LET cols == PoolColumns(c - 1, records[c])
                IN  /\ Len(pool) =
                           SumSeq([j \in 1..Len(cols) |->
                                      Cardinality(Observed(table, cols[j]))])
                    /\ \A k \in 1..Len(pool) : pool[k] # None
                    /\ \A v \in {pool[k] : k \in 1..Len(pool)} :
                           Cardinality({k \in 1..Len(pool) : pool[k] = v})
                               = Cardinality(CellsHolding(table, cols, v))
        IN  Holds[records[c].all_values]

CurveAsClaimed(records, curve, mode, plan) ==
    \A c \in 1..CurveMonths :
        LET Holds[drawn \in Int] ==
                LET top == Larger(R, min_ndr_12th_root)
                IN  /\ ~mode => curve[c] = drawn
                    /\ mode /\ (drawn = None \/ drawn <= top) =>
                           curve[c] = drawn
                    /\ mode /\ drawn # None /\ drawn > top =>
                           /\ curve[c] = (drawn + top) \div 2
                           /\ top < curve[c]
                           /\ curve[c] < drawn
                    /\ drawn # None => curve[c] # None /\ curve[c] <= drawn
        IN  Holds[RandomChoice(records[c].all_values, plan)]

\* C22: for the same table, floor and draws, the conservative value of
\* every column is <= the aggressive value (the drawn one); it is the
\* drawn value when that is null or <= max(1, floor), and otherwise the
\* average of the drawn value and max(1, floor), strictly between the two.
C22_ConservativeBelowAggressive ==
    /\ deploy_pc = "done" =>
           \A sim \in 1..Len(all_curves) :
               CurveAsClaimed(deploy_records, all_curves[sim],
                              deploy_conservative, ChoicePlans[sim])
    /\ curve_pc = "done" =>
           \E sim \in 1..Len(ChoicePlans) :
               CurveAsClaimed(pool_records, simulated_curve,
                              backend_conservative, ChoicePlans[sim])

\* C22 witness: a conservative run of simulate_1000_retention_curves in
\* which one column's drawn value is above max(1, floor) and is averaged,
\* and another column's drawn value is not above it and is kept.
C22_Witness ==
    /\ deploy_pc = "done"
    /\ deploy_conservative
    /\ \E c \in 1..CurveMonths :
           /\ deploy_records[c].all_values # <<>>
           /\ deploy_records[c].all_values[1]
                  > Larger(R, min_ndr_12th_root)
           /\ all_curves[1][c] < deploy_records[c].all_values[1]
    /\ \E c \in 1..CurveMonths :
           /\ deploy_records[c].all_values # <<>>
           /\ deploy_records[c].all_values[1]
                  <= Larger(R, min_ndr_12th_root)
           /\ all_curves[1][c] = deploy_records[c].all_values[1]

(***************************************************************************)
(* Claims about the CohortCashFlowProjector.                               *)
(***************************************************************************)
\* The revenue of month 1 as the claim gives it.
RevenueOneAsClaimed(spend, ratio) ==
    IF ratio > 0 THEN Quotient(spend, ratio, 5) ELSE 0

\* C23 (as claimed): revenue[1] is spend / ratio for a ratio > 0 and 0 for
\* a ratio <= 0, so the gross profit of month 1 is never null and, the
\* gross margin being >= 0, never negative.
C23_MonthOne ==
    /\ revenue_pc = "done" =>
           revenue_columns[1] =
               RevenueOneAsClaimed(mc_data.sm_value, mc_data.predicted_ratio)
    /\ profit_pc = "done" =>
           /\ gross_profit_columns[1] =
                  MulR(RevenueOneAsClaimed(mc_data.sm_value,
                                           mc_data.predicted_ratio),
                       gross_margin)
           /\ gross_profit_columns[1] # None
           /\ gross_profit_columns[1] >= 0

\* From month n on the columns are null.
NullFrom(columns, n) == \A m \in n..Len(columns) : columns[m] = None

\* C24: when the revenue of month n - 1 is null or the curve entry used
\* for month n (2 <= n <= 60) is null, revenue and gross profit are null
\* in month n and in every later month, and each of these months is 0 in
\* the cash-flow vector of 61 entries.
C24_NullPropagates ==
    /\ revenue_pc = "done" =>
           \A n \in 2..ProjectionMonths :
               (revenue_columns[n - 1] = None \/ retention_curve[n] = None)
                   => NullFrom(revenue_columns, n)
    /\ profit_pc = "done" =>
           /\ Len(row_cash_flow) = ProjectionMonths + 1
           /\ \A n \in 2..ProjectionMonths :
                  (gross_profit_columns[n - 1] = None
                   \/ retention_curve[n] = None)
                      => /\ NullFrom(gross_profit_columns, n)
                         /\ \A m \in n..ProjectionMonths :
                                row_cash_flow[m + 1] = 0
    /\ revenue_pc = "done" /\ profit_pc = "done" =>
           \A n \in 1..ProjectionMonths :
               (revenue_columns[n] = None) = (gross_profit_columns[n] = None)

\* C24 witness: both tables built a row whose curve is null at index 5
\* only: revenue and gross profit are numbers up to month 5 and null from
\* month 6 on, although the later curve entries are numbers.
C24_Witness ==
    /\ revenue_pc = "done"
    /\ profit_pc = "done"
    /\ retention_curve[6] = None
    /\ \A k \in 7..ProjectionMonths : retention_curve[k] # None
    /\ revenue_columns[5] > 0
    /\ gross_profit_columns[5] > 0
    /\ NullFrom(revenue_columns, 6)
    /\ NullFrom(gross_profit_columns, 6)
    /\ row_cash_flow[6] > 0
    /\ row_cash_flow[ProjectionMonths + 1] = 0

\* Values a first curve entry can take.
FirstEntries == {None, 0, 500000, 1200000, 2000000}

\* C29: the first entry of the curve (index 0) has no influence on the
\* revenue and gross-profit values, which are those of the same row with
\* any other first entry; and the output has exactly 60 gross-profit
\* entries after the -spend entry.
C29_FirstEntryUnread ==
    /\ revenue_pc = "done" =>
           /\ Len(revenue_columns) = ProjectionMonths
           /\ \A first \in FirstEntries :
                  revenue_columns =
                      RevenueColumns(mc_data.sm_value, mc_data.predicted_ratio,
                                     [retention_curve EXCEPT ![1] = first])
    /\ profit_pc = "done" =>
           /\ Len(gross_profit_columns) = ProjectionMonths
           /\ Len(row_cash_flow) = ProjectionMonths + 1
           /\ row_cash_flow[1] = -(mc_data.sm_value * CentsPerUnit)
           /\ \A first \in FirstEntries :
                  gross_profit_columns =
                      GrossProfitColumns(mc_data.sm_value,
                                         mc_data.predicted_ratio,
                                         [retention_curve EXCEPT ![1] = first],
                                         gross_margin)

\* C29 witness: both tables built a row with revenue in every month from
\* a curve whose first entry is null.
C29_Witness ==
    /\ revenue_pc = "done"
    /\ profit_pc = "done"
    /\ retention_curve[1] = None
    /\ \A n \in 1..ProjectionMonths : revenue_columns[n] > 0
    /\ \A n \in 1..ProjectionMonths : gross_profit_columns[n] > 0

(***************************************************************************)
(* Claims about the samplers together.                                     *)
(***************************************************************************)
\* A step in which a ratio sampler or a retention sampler returns.
DrawStep ==
    \/ run_pc = "ready" /\ run_pc' # "ready"
    \/ predict_pc = "ready" /\ predict_pc' # "ready"
    \/ curve_pc = "ready" /\ curve_pc' # "ready"
    \/ deploy_pc = "ready" /\ deploy_pc' # "ready"

\* C25: no draw of a ratio sampler or of a retention sampler, in any
\* order and after any number of earlier draws, changes the ratio
\* distribution (heads_percentage, pool, cac_12m), the spend and revenue
\* mappings, the retention table or the NDR floor.
C25_DrawsMutateNothing ==
    [][DrawStep =>
           UNCHANGED <<algorithm_data, sm_dict, revenue_dict, cohorts_data,
                       retention_table, num_cols, min_ndr_12th_root>>]_vars

\* C25 witness: the four samplers have returned, the ratio sampler after
\* a tails draw from a pool of two ratios, and the structures are still
\* the ones built from the history.
C25_Witness ==
    /\ run_pc = "done"
    /\ predict_pc = "done"
    /\ curve_pc = "done"
    /\ deploy_pc = "done"
    /\ draws[1].u # 0
    /\ Len(algorithm_data.distribution) = 2
    /\ algorithm_data =
           BuildPredictionAlgorithm(sm_dict, revenue_dict, conservative)
    /\ retention_table = RetentionTable(cohorts_data)

(***************************************************************************)
(* Further claims about the LoanAmortizer.                                 *)
(***************************************************************************)
\* C26: for a first entry < 0, a loan percentage > 0 and a yearly rate
\* >= 0, the principal payment of a month never exceeds the outstanding
\* principal, and the outstanding principal is >= 0 after every month.
C26_PrincipalNeverNegative ==
    pc \in {"loop", "done"} =>
        /\ outstanding_principal >= 0
        /\ \A k \in 1..Len(history) :
               /\ history[k].principal <= history[k].before
               /\ history[k].after >= 0

\* C26 witness: a loan of three months in which one month's payment is
\* capped by the outstanding principal (the available amount is larger)
\* and another month's principal payment is negative.
C26_Witness ==
    /\ pc = "done"
    /\ loan_percentage > 0
    /\ \E k \in 1..Len(history) :
           /\ history[k].before > 0
           /\ history[k].principal = history[k].before
           /\ MulR(history[k].flow, loan_percentage) - history[k].interest
                  > history[k].before
    /\ \E k \in 1..Len(history) : history[k].principal < 0

\* C27: once the outstanding principal is 0 after a month, it is 0 after
\* every later month and the lender payment of every later month is
\* exactly 0, whatever the flows of those months.
C27_PaidOffStaysPaidOff ==
    \A k \in 1..Len(history) :
        history[k].after = 0 =>
            \A j \in (k + 1)..Len(history) :
                /\ history[j].after = 0
                /\ history[j].payment = 0
                /\ lender_cashflows[j + 1] = 0

\* C27 witness: the loan is paid off in the first month, and the two
\* months after it have a positive flow and a flow <= 0.
C27_Witness ==
    /\ pc = "done"
    /\ Len(history) = 3
    /\ history[1].before > 0
    /\ history[1].after = 0
    /\ history[2].flow > 0
    /\ history[3].flow <= 0
    /\ lender_cashflows[3] = 0
    /\ outstanding_principal = 0

(***************************************************************************)
(* Further claims about the HistoricalRatioModel.                          *)
(***************************************************************************)
\* The months of the history whose spend/revenue ratio is exactly 10000.
ThresholdMonths ==
    {m \in 1..Len(revenue_dict) :
        /\ revenue_dict[m] # None
        /\ revenue_dict[m] > 0
        /\ RatioIsThreshold(GetOrZero(sm_dict, m), revenue_dict[m])}

\* C28 as stated: every month is counted toward the heads count or
\* contributes its ratio to the pool, so heads_count + len(distribution)
\* is the number of months, also with a month whose ratio is exactly 10000.
C28_HeadsAndPoolCoverHistory ==
    spc = "built" =>
        algorithm_data.heads_percentage_overall =
            ((Len(revenue_dict) - Len(algorithm_data.distribution)) * R)
                \div Len(revenue_dict)

\* C28 amended: no month is both counted as heads and in the pool, and the
\* months that are neither are exactly those whose ratio is exactly 10000:
\* heads_count + len(distribution) + the number of months with a ratio of
\* exactly 10000 is the number of months.
C28_HeadsPoolAndThreshold ==
    spc = "built" =>
        /\ Len(algorithm_data.distribution) + Cardinality(ThresholdMonths)
               <= Len(revenue_dict)
        /\ algorithm_data.heads_percentage_overall =
               ((Len(revenue_dict) - Len(algorithm_data.distribution)
                   - Cardinality(ThresholdMonths)) * R)
                   \div Len(revenue_dict)

\* C28 witness: an algorithm built from two months, one with a ratio of
\* exactly 10000 and one with a smaller ratio: no month is heads and the
\* pool holds one ratio.
C28_Witness ==
    /\ spc = "built"
    /\ Len(revenue_dict) = 2
    /\ Cardinality(ThresholdMonths) = 1
    /\ Len(algorithm_data.distribution) = 1
    /\ algorithm_data.distribution[1] < HeadsRatio
    /\ algorithm_data.heads_percentage_overall = 0

(***************************************************************************)
(* Further claims about the ReturnCapEngine.                               *)
(***************************************************************************)
\* The horizon flag has been computed (line 50 is passed).
FlagComputed == fpc \notin {"entry", "start"}

\* C30: months_to_max_years depends on max_years alone: it is
\* 12 * max_years exactly when min(60, 12 * max_years) >= 12 * max_years
\* and unset otherwise, whatever the payments are; so it is set also when
\* the target is reached within the horizon, and never when max_years > 5.
C30_HorizonFlagOfMaxYears ==
    FlagComputed =>
        /\ months_to_max_years =
               IF Min(MonthsCap, MonthsPerYear * max_years)
                      >= MonthsPerYear * max_years
               THEN MonthsPerYear * max_years
               ELSE None
        /\ (return_reached /\ max_years <= 5) =>
               months_to_max_years = MonthsPerYear * max_years
        /\ max_years > 5 => months_to_max_years = None

\* C30 witness: a finished call in which the target is reached before the
\* horizon, with both months_to_target and months_to_max_years set.
C30_Witness ==
    /\ fpc = "done"
    /\ return_reached
    /\ months_to_target # None
    /\ months_to_max_years = MonthsPerYear * max_years
    /\ months_to_target < months_to_max_years

\* A finished call with max_years = 6 in which the target is reached and
\* the flag is unset.
C30_WitnessBeyondCap ==
    /\ fpc = "done"
    /\ max_years = 6
    /\ return_reached
    /\ months_to_max_years = None

=============================================================================
